---------------------------- MODULE Spec2Model ----------------------------
(***************************************************************************)
(* A model of the andre2 backend: the queue engine (QueueManager), the     *)
(* room state of index.ts, the handlers of inbound messages and HTTP       *)
(* calls, and the reconciliation poll of the conductor's playback.         *)
(***************************************************************************)
EXTENDS Integers, Sequences, FiniteSets, Bags, TLC

(***************************************************************************)
(* Values                                                                  *)
(***************************************************************************)
\* JavaScript null
Null == "<null>"

\* the empty string a session without an email submits as userEmail
EmptyEmail == ""

FALLBACK_EMAIL == "fallback@system"

\* JavaScript truthiness of a userEmail / an optional string
Truthy(s) == s # Null /\ s # EmptyEmail

Max(a, b) == IF a >= b THEN a ELSE b

Min(a, b) == IF a <= b THEN a ELSE b

\* the largest element of a finite set of integers, dflt when it is empty
MaxOf(S, dflt) == IF S = {} THEN dflt ELSE CHOOSE m \in S : \A n \in S : n <= m

\* a SubmittedTrack: the fields the queue engine and the room state read
\* a jamCounts object without an entry
NoJams == [email \in {} |-> 0]

\* a SubmittedTrack with its jamCounts: the entries map an email to its count
Jammed(uri, email, jamCounts) ==
    [spotifyUri |-> uri, userEmail |-> email, jamCounts |-> jamCounts]

Track(uri, email) == Jammed(uri, email, NoJams)

UrisOf(q) == {q[i].spotifyUri : i \in 1..Len(q)}

(***************************************************************************)
(* QueueManager: pure parts                                                *)
(***************************************************************************)
SpliceIn_Replace(q, idx, item) ==
    SubSeq(q, 1, idx) \o <<item>> \o SubSeq(q, idx + 2, Len(q))

\* Array.prototype.splice(idx, 0, item) with a 0-based index
SpliceIn(q, idx, item) == SubSeq(q, 1, idx) \o <<item>> \o SubSeq(q, idx + 1, Len(q))

\* Array.prototype.splice(idx, 1) with a 0-based index: the array left behind
SpliceOut(q, idx) == SubSeq(q, 1, idx) \o SubSeq(q, idx + 2, Len(q))

\* Array.prototype.findIndex on the URI: 0-based, -1 when absent
FindIndex(q, uri) ==
    LET hits == {i \in 1..Len(q) : q[i].spotifyUri = uri}
    IN  IF hits = {} THEN -1 ELSE (CHOOSE i \in hits : \A j \in hits : i <= j) - 1

hasTrack(q, uri) == \E i \in 1..Len(q) : q[i].spotifyUri = uri

\* joinOrder: the distinct truthy emails in first-appearance order
RECURSIVE JoinOrderFrom(_, _, _)
JoinOrderFrom(q, i, acc) ==
    IF i > Len(q) THEN acc
    ELSE IF ~Truthy(q[i].userEmail) THEN JoinOrderFrom(q, i + 1, acc)
    ELSE IF \E j \in 1..Len(acc) : acc[j] = q[i].userEmail
         THEN JoinOrderFrom(q, i + 1, acc)
         ELSE JoinOrderFrom(q, i + 1, Append(acc, q[i].userEmail))

joinOrder(q) == JoinOrderFrom(q, 1, <<>>)

Includes(s, x) == \E j \in 1..Len(s) : s[j] = x

\* userCounts[email] || 0
userCounts(q, email) ==
    Cardinality({i \in 1..Len(q) : Truthy(q[i].userEmail) /\ q[i].userEmail = email})

newTrackRound(q, thisUser) == userCounts(q, thisUser) + 1

\* the last 0-based index the submitter occupies, -1 when none
lastUserIdx(q, thisUser) ==
    MaxOf({i - 1 : i \in {j \in 1..Len(q) : q[j].userEmail = thisUser}}, -1)

\* roundsSeen[sid] right after the scan has visited the 1-based position i
currentRound(q, i) ==
    Cardinality({j \in 1..i : q[j].userEmail = q[i].userEmail})

boundaryIdx_ExclusiveRound(q, thisUser) ==
    MaxOf({i - 1 : i \in {j \in 1..Len(q) :
                /\ Truthy(q[j].userEmail)
                /\ Includes(joinOrder(q), q[j].userEmail)
                /\ currentRound(q, j) < newTrackRound(q, thisUser)}}, -1)

boundaryIdx_AllRounds(q, thisUser) ==
    MaxOf({i - 1 : i \in {j \in 1..Len(q) :
                /\ Truthy(q[j].userEmail)
                /\ Includes(joinOrder(q), q[j].userEmail)}}, -1)

\* the last 0-based index whose entry completes a round <= newTrackRound
boundaryIdx(q, thisUser) ==
    MaxOf({i - 1 : i \in {j \in 1..Len(q) :
                /\ Truthy(q[j].userEmail)
                /\ Includes(joinOrder(q), q[j].userEmail)
                /\ currentRound(q, j) <= newTrackRound(q, thisUser)}}, -1)

finalIdx_OffByOne(q, thisUser) ==
    Max(0, Max(lastUserIdx(q, thisUser), boundaryIdx(q, thisUser)))

finalIdx(q, thisUser) ==
    Max(lastUserIdx(q, thisUser) + 1, boundaryIdx(q, thisUser) + 1)

fairInsertTrack(q, track) ==
    IF ~Truthy(track.userEmail) THEN Append(q, track)
    ELSE SpliceIn(q, finalIdx(q, track.userEmail), track)

addTrack(q, track) == fairInsertTrack(q, track)

removeTrack(q, uri) ==
    IF FindIndex(q, uri) # -1 THEN SpliceOut(q, FindIndex(q, uri)) ELSE q

\* the array after moveTrackBackOne; unchanged where the method returns false
moveTrackBackOne(q, uri) ==
    LET idx == FindIndex(q, uri)
    IN  IF idx = -1 \/ idx >= Len(q) - 1 THEN q
        ELSE [q EXCEPT ![idx + 1] = q[idx + 2], ![idx + 2] = q[idx + 1]]

\* what moveTrackBackOne returns
moved(q, uri) == ~(FindIndex(q, uri) = -1 \/ FindIndex(q, uri) >= Len(q) - 1)

\* Array.prototype.shift guarded by length > 0
Shift(q) == IF Len(q) > 0 THEN Tail(q) ELSE q

(***************************************************************************)
(* Program constants                                                       *)
(***************************************************************************)
TRACK_CHANGE_GRACE_PERIOD_MS == 3000

PLAYBACK_FAILURE_TIMEOUT_MS == 5000

(***************************************************************************)
(* Bounds and input sets                                                   *)
(***************************************************************************)
\* longest user queue the unit-level specification starts from
MaxFairLen == 4

\* addTrack calls applied to one starting queue
MaxAdds == 2

Emails == {"u1", "u2", "u3"}

\* what a submitted track's userEmail can hold: an email, '' or null
TrackEmails == Emails \cup {EmptyEmail, Null}

\* the userEmail of the entries of a generated queue
QueueEmails == Emails \cup {EmptyEmail}

\* URIs in submission order, one sequence per family of inputs: the letters of
\* the five-then-one regression, the uriN of the older unit tests and the
\* A1..C2 of the three-user regression
UriFamilies ==
    { <<"A", "B", "C", "D", "E", "F", "G", "H">>,
      <<"uri1", "uri2", "uri3", "uri4">>,
      <<"A1", "B1", "A2", "B2", "A3", "C1", "C2">> }

Letters == <<"A", "B", "C", "D", "E", "F", "G", "H">>

\* the family a queue's URIs come from (the letters for the empty queue)
FamilyOf(q) ==
    IF q = <<>> THEN Letters
    ELSE CHOOSE f \in UriFamilies : Includes(f, q[1].spotifyUri)

\* the next URI of the queue's family that the queue does not hold yet
NextUri(q) ==
    LET f == FamilyOf(q)
        free == {i \in 1..Len(f) : f[i] \notin UrisOf(q)}
    IN  f[CHOOSE i \in free : \A j \in free : i <= j]

HasNextUri(q) == \E i \in 1..Len(FamilyOf(q)) : FamilyOf(q)[i] \notin UrisOf(q)

\* every queue of at most MaxFairLen entries, the i-th entry holding the i-th letter
LetterQueues ==
    UNION { { [i \in 1..n |-> Track(Letters[i], es[i])] : es \in [1..n -> QueueEmails] }
            : n \in 0..MaxFairLen }

\* setSubmittedTracks of 'inserts new user after all others'
QueueTwoByA == <<Track("uri1", "u1"), Track("uri2", "u1")>>

\* setSubmittedTracks of 'user3 first track goes after user2 first track'
QueueThreeUsers ==
    <<Track("A1", "u1"), Track("B1", "u2"), Track("A2", "u1"),
      Track("B2", "u2"), Track("A3", "u1")>>

\* setSubmittedTracks of 'user3 second track goes after user2 second track'
QueueThreeUsersC1Last ==
    <<Track("A1", "u1"), Track("B1", "u2"), Track("A2", "u1"),
      Track("B2", "u2"), Track("A3", "u1"), Track("C1", "u3")>>

\* setSubmittedTracks of 'user1 has A..E, user2 adds F'
QueueFiveByU1 ==
    <<Track("A", "u1"), Track("B", "u1"), Track("C", "u1"),
      Track("D", "u1"), Track("E", "u1")>>

\* setSubmittedTracks of 'handles null userEmail gracefully'
QueueNullEmail == <<Track("uri1", Null)>>

FixtureQueues ==
    {QueueTwoByA, QueueThreeUsers, QueueThreeUsersC1Last, QueueFiveByU1, QueueNullEmail}

(***************************************************************************)
(* State                                                                   *)
(***************************************************************************)
VARIABLES
    submittedTracks,        \* QueueManager.submittedTracks
    fallbackQueue,          \* QueueManager.fallbackQueue
    preQueue,               \* submittedTracks before the latest addTrack
    lastAdded,              \* the track the latest addTrack was given, or Null
    addCount,               \* addTrack calls so far
    lastCall,               \* the latest QueueManager call of the unit-level specifications
    sessions,               \* the sessions map: session id -> session
    sessionOrder,           \* the insertion order of the sessions map
    masterUserSessionId,
    mode,
    currentlyPlayingTrack,
    currentProgress,        \* currentlyPlayingTrack.progress.position_ms, or Null
    currentTrackIsFallback,
    currentTrackConsumed,
    lastMasterPlaybackState,
    masterTrackStarted,
    lastPlaybackState,
    lastTrackChangeCommand,
    lastManualSkipAt,
    playbackFailureCheckTime,
    expectedPlayingUri,
    pollInterval,           \* TRUE while the setInterval timer is set
    now,                    \* Date.now()
    tasks,                  \* the handlers suspended on a provider call (a bag)
    observed,               \* {curr} of the poll tick that took the step, else {}
    playbackErrorTo,        \* the sessions the step sent playback_error to
    broadcasts,             \* what the step broadcast: "mode" for broadcastMode(),
                            \* "tracks_list" for broadcastTrackList()
    command,                \* the login, master_play, master_pause, master_skip or
                            \* take_master_control message the step handles and the
                            \* session that sent it or that it names, else NoCommand
    playHistoryPushed,      \* the tracks the step pushed to playHistory, in order
    historyPushed,          \* the events the step pushed to history, in order
    historyLength,          \* history.length
    currentFallbackPlaylistUrl,     \* QueueManager.currentFallbackPlaylistUrl
    currentFallbackPlaylistName,    \* QueueManager.currentFallbackPlaylistName
    playlistResponse        \* the HTTP status the step answered the submission of a
                            \* playlist with, else NoResponse

queueVars == <<submittedTracks, fallbackQueue>>

addVars == <<preQueue, lastAdded, addCount, lastCall>>

sessionVars == <<sessions, sessionOrder, masterUserSessionId>>

trackVars ==
    <<currentlyPlayingTrack, currentProgress, currentTrackIsFallback, currentTrackConsumed>>

pollVars ==
    <<lastMasterPlaybackState, masterTrackStarted, lastPlaybackState,
      lastTrackChangeCommand, lastManualSkipAt, playbackFailureCheckTime,
      expectedPlayingUri>>

\* everything the playback handlers and the poll loop write
playVars == <<mode, trackVars, pollVars, pollInterval>>

outVars == <<observed, playbackErrorTo, broadcasts, command, playHistoryPushed,
            historyPushed>>

\* the room's state apart from what a step reports
roomVarsButOut == <<sessionVars, playVars, now, tasks>>

playlistVars == <<currentFallbackPlaylistUrl, currentFallbackPlaylistName>>

roomVars == <<roomVarsButOut, outVars, historyLength, playlistVars, playlistResponse>>

vars == <<queueVars, addVars, roomVars>>

\* a socket message: a login or one of the conductor's controls
Command(type, sessionId) == [type |-> type, sessionId |-> sessionId]

NoCommand == Command("none", Null)

\* currentlyPlayingTrack === null
NoTrack == Track(Null, Null)

\* a progress_ms or duration_ms that is null, or a progress that is null
NoProgress == -1

\* the body of a playback response that is empty: nothing is loaded in the
\* conductor's player; lastPlaybackState === null reads the same to its one
\* reader, the track-end detection
NoPlayback ==
    [uri |-> Null, progress_ms |-> NoProgress, duration_ms |-> NoProgress, is_playing |-> Null]

\* the epoch the clock starts from: far enough from 0 for no window to be open
StartTime == 2 * PLAYBACK_FAILURE_TIMEOUT_MS

\* the sessions map and the conductor after the declarations of index.ts
SessionInit ==
    /\ sessions = << >>
    /\ sessionOrder = << >>
    /\ masterUserSessionId = Null

\* the playback state after the declarations of index.ts
\* the playlist the constructor falls back to
DEFAULT_FALLBACK_PLAYLIST == "spotify:playlist:default"

\* a playlist a participant submits
SubmittedPlaylists == {"spotify:playlist:party"}

\* playlistInfo.name of a playlist
PlaylistName(url) == IF url = DEFAULT_FALLBACK_PLAYLIST THEN "Default" ELSE "Party"

\* no playlist was answered in the step
NoResponse == 0

PlayInit ==
    /\ mode = "master_pause"
    /\ currentlyPlayingTrack = NoTrack
    /\ currentProgress = NoProgress
    /\ currentTrackIsFallback = FALSE
    /\ currentTrackConsumed = FALSE
    /\ lastMasterPlaybackState = Null
    /\ masterTrackStarted = FALSE
    /\ lastPlaybackState = NoPlayback
    /\ lastTrackChangeCommand = 0
    /\ lastManualSkipAt = 0
    /\ playbackFailureCheckTime = 0
    /\ expectedPlayingUri = Null
    /\ pollInterval = FALSE
    /\ now = StartTime
    /\ tasks = EmptyBag
    /\ observed = {}
    /\ playbackErrorTo = {}
    /\ broadcasts = {}
    /\ command = NoCommand
    /\ playHistoryPushed = << >>
    /\ historyPushed = << >>
    /\ currentFallbackPlaylistUrl = DEFAULT_FALLBACK_PLAYLIST
    /\ playlistResponse = NoResponse

\* the module-level state of index.ts after its declarations
MAX_HISTORY_EVENTS == 500

\* the entries of a history or play_history message
HISTORY_MESSAGE_EVENTS == 100

\* the length of an array of that length sliced with slice(-k)
sliceLast(length, k) == IF length > k THEN k ELSE length

\* history.length after broadcastHistory() has trimmed a history of that length
broadcastHistory(length) ==
    IF length > MAX_HISTORY_EVENTS THEN length - (length - MAX_HISTORY_EVENTS) ELSE length

\* history.length after a handler pushed the events h: a handler that pushes
\* at run time calls broadcastHistory() before it returns or awaits
pushAndBroadcast(length, h) ==
    IF h = << >> THEN length ELSE broadcastHistory(length + Len(h))

\* history.length after loadHistoryFromFile() read a file of fileLength events
\* into the empty history
loadHistoryFromFile(fileLength) == sliceLast(fileLength, MAX_HISTORY_EVENTS)

\* the entries of the history message a broadcast sends now
HistoryMessage == sliceLast(historyLength, HISTORY_MESSAGE_EVENTS)

\* the history of a server that has run for long: full, and broadcast since
LongRun == historyLength = MAX_HISTORY_EVENTS

\* the playlist name is set by the load that filled the fallback queue
NameAsLoaded ==
    currentFallbackPlaylistName =
        IF fallbackQueue = << >> THEN "" ELSE PlaylistName(DEFAULT_FALLBACK_PLAYLIST)

RoomInit == SessionInit /\ PlayInit /\ LongRun /\ NameAsLoaded

\* a call of a QueueManager method: its name, its spotifyUri or isFallback
\* argument and, for moveTrackBackOne, what it returned
Call(op, uri, isFallback, returned) ==
    [op |-> op, uri |-> uri, isFallback |-> isFallback, returned |-> returned]

NoCall == Call("none", Null, FALSE, FALSE)

\* the bookkeeping every caller of queueManager.addTrack shares
AddTrackCall(track) ==
    /\ submittedTracks' = addTrack(submittedTracks, track)
    /\ preQueue' = submittedTracks
    /\ lastAdded' = track
    /\ addCount' = addCount + 1
    /\ lastCall' = Call("addTrack", track.spotifyUri, FALSE, FALSE)

(***************************************************************************)
(* SpecFair: QueueManager driven as the unit tests drive it,               *)
(* setSubmittedTracks(queue) followed by addTrack calls                    *)
(***************************************************************************)
InitFair ==
    /\ submittedTracks \in LetterQueues \cup FixtureQueues
    /\ fallbackQueue = <<>>
    /\ preQueue = <<>>
    /\ lastAdded = Null
    /\ addCount = 0
    /\ lastCall = NoCall
    /\ RoomInit

AddTrackOp(email) ==
    /\ addCount < MaxAdds
    /\ HasNextUri(submittedTracks)
    /\ AddTrackCall(Track(NextUri(submittedTracks), email))
    /\ UNCHANGED <<fallbackQueue, roomVars>>

NextFair == \E email \in TrackEmails : AddTrackOp(email)

SpecFair == InitFair /\ [][NextFair]_vars

(***************************************************************************)
(* The room: inputs                                                        *)
(***************************************************************************)
\* HTTP request handlers that may be suspended on a provider call at once
MaxRequests == 2

\* socket-message and timer handlers that may be suspended on a provider call
\* at once
MaxInFlight == 1

\* steps the clock takes in the model
MaxClock == 2

\* Date.now() moves in steps of the shorter window the code compares it with:
\* a timestamp is 0, 1 or 2 steps old, that is inside the grace period, past it
\* but inside the failure window, or past both
ClockStep == TRACK_CHANGE_GRACE_PERIOD_MS

\* user queue length up to which submissions are accepted in the model
MaxQueue == 1

SessionIds == {"s1", "s2"}

\* the identity a session id logs in with: s1 through the provider's OAuth, s2
\* as a listener
SpotifyLogins == {<<"s1", "u1">>}

ListenerLogins == {<<"s2", "u2">>}

\* the tracks participants submit
SubmitUris == {"X", "Y"}

\* the tracks of the fallback playlist
PlaylistUris == {"K"}

\* what the conductor's player can be found playing
ProviderUris == SubmitUris \cup PlaylistUris

(***************************************************************************)
(* Sessions                                                                *)
(***************************************************************************)
\* a session: its identity's email (Null before the OAuth callback), whether it
\* holds state.spotify.access_token, whether ws is an open socket, and in beat
\* whether lastHeartbeat holds a timestamp; GET /login creates it without one.
\* idle says that more than HEARTBEAT_TIMEOUT_MS have passed since the session
\* was created or last logged in or sent a ping
Session(email, token, ws) ==
    [email |-> email, token |-> token, ws |-> ws, beat |-> FALSE, idle |-> FALSE]

\* String.prototype.toLowerCase on the emails of the model
toLowerCase(e) == IF e = "U1" THEN "u1" ELSE e

HasSession(sid) == sid \in DOMAIN sessions

\* sessions.get(sid)?.state?.spotify?.access_token
AccessToken(sid) == sid # Null /\ HasSession(sid) /\ sessions[sid].token

\* state.spotify.email || state.listener.email || ''
EmailOf(sid) ==
    IF HasSession(sid) /\ sessions[sid].email # Null THEN sessions[sid].email ELSE EmptyEmail

\* masterSession?.state?.spotify?.access_token
MasterAccessToken == AccessToken(masterUserSessionId)

\* sessions with an open socket: the recipients of a broadcast
OpenSessions == {sid \in DOMAIN sessions : sessions[sid].ws}

SessionsSet(sid, sess) ==
    /\ sessions' = [x \in DOMAIN sessions \cup {sid} |-> IF x = sid THEN sess ELSE sessions[x]]
    /\ sessionOrder' = IF HasSession(sid) THEN sessionOrder ELSE Append(sessionOrder, sid)

RECURSIVE Without(_, _)
Without(seq, S) ==
    IF seq = << >> THEN << >>
    ELSE IF Head(seq) \in S THEN Without(Tail(seq), S)
    ELSE <<Head(seq)>> \o Without(Tail(seq), S)

\* the first session, in the map's order, that holds an access token
FirstWithToken(m, order) ==
    LET hits == {i \in 1..Len(order) : m[order[i]].token}
    IN  IF hits = {} THEN Null ELSE order[CHOOSE i \in hits : \A j \in hits : i <= j]

(***************************************************************************)
(* Suspended handlers                                                      *)
(***************************************************************************)
\* a handler waiting for a provider call: where it resumes and the locals it holds
Task(pc, uri, email, prev, curr) ==
    [pc |-> pc, uri |-> uri, email |-> email, prev |-> prev, curr |-> curr]

\* where the HTTP request handlers wait
RequestPcs == {"submitInfo", "liked", "playlistLoad"}

InFlight(pcs) == BagCardinality([t \in {x \in BagToSet(tasks) : x.pc \in pcs} |-> tasks[t]])

CanSuspendRequest == InFlight(RequestPcs) < MaxRequests

CanSuspend == BagCardinality(tasks) - InFlight(RequestPcs) < MaxInFlight

Suspend(bag, t) == bag (+) SetToBag({t})

Resume(bag, t) == bag (-) SetToBag({t})

Pending(pc) == {t \in BagToSet(tasks) : t.pc = pc}

(***************************************************************************)
(* QueueManager: the fallback playlist                                     *)
(***************************************************************************)
\* the orders Fisher-Yates can leave the playlist's tracks in
RECURSIVE Shuffles(_)
Shuffles(S) ==
    IF S = {} THEN { << >> }
    ELSE UNION { { <<x>> \o rest : rest \in Shuffles(S \ {x}) } : x \in S }

\* the fallbackQueue a successful loadFallbackPlaylist can leave
LoadedFallbacks == { [i \in 1..Len(sh) |-> Track(sh[i], FALLBACK_EMAIL)] : sh \in Shuffles(PlaylistUris) }

\* peekNextTrack returned null
NoNext == [track |-> NoTrack, isFallback |-> FALSE]

\* peekNextTrack where it answers without a provider call: the head of the user
\* queue, else the head of the fallback queue, else nothing
peekNextTrack(q, fb) ==
    IF Len(q) > 0 THEN [track |-> q[1], isFallback |-> FALSE]
    ELSE IF Len(fb) > 0 THEN [track |-> fb[1], isFallback |-> TRUE]
    ELSE NoNext

\* peekNextTrack has to load the fallback playlist first
PeekMustLoad(q, fb, token) == Len(q) = 0 /\ Len(fb) = 0 /\ token

consumeNextTrack_BothTiers(q, fb, isFallback) == <<Shift(q), Shift(fb)>>

\* <<submittedTracks, fallbackQueue>> after consumeNextTrack(isFallback)
consumeNextTrack(q, fb, isFallback) ==
    IF isFallback THEN <<q, Shift(fb)>> ELSE <<Shift(q), fb>>

removeFallbackTrack(fb, uri) ==
    IF FindIndex(fb, uri) = -1 THEN fb ELSE SpliceOut(fb, FindIndex(fb, uri))

(***************************************************************************)
(* Session handlers                                                        *)
(***************************************************************************)
\* a history event: its type and the track URI or session it is about
Event(type, about) == [type |-> type, about |-> about]

\* a step that is no poll tick, pushes nothing to playHistory and sends no
\* playback_error; it handles the socket message c, broadcasts b and pushes
\* the events h to history
Outputs(c, b, h) ==
    /\ observed' = {}
    /\ playbackErrorTo' = {}
    /\ broadcasts' = b
    /\ command' = c
    /\ playHistoryPushed' = << >>
    /\ historyPushed' = h
    /\ historyLength' = pushAndBroadcast(historyLength, h)

\* such a step that answers no playlist submission and leaves the fallback
\* playlist's URL and name alone
Emits(c, b, h) ==
    /\ Outputs(c, b, h)
    /\ playlistResponse' = NoResponse
    /\ UNCHANGED playlistVars

\* such a step that pushes no history event
Handles(c, b) == Emits(c, b, << >>)

\* such a step for anything but a login or a conductor's control
Says(b) == Handles(NoCommand, b)

\* such a step that broadcasts neither the mode nor the track list
Quiet == Says({})

\* POST /api/listener-login
ListenerLogin(sid, email) ==
    /\ ~HasSession(sid)
    /\ SessionsSet(sid, [Session(email, FALSE, FALSE) EXCEPT !.beat = TRUE])
    /\ Quiet
    /\ UNCHANGED <<queueVars, addVars, masterUserSessionId, playVars, now, tasks>>

\* GET /api/spotify/login followed by GET /api/spotify/callback
SpotifyCallback(sid, email) ==
    /\ ~HasSession(sid)
    /\ SessionsSet(sid, Session(email, TRUE, FALSE))
    /\ Quiet
    /\ UNCHANGED <<queueVars, addVars, masterUserSessionId, playVars, now, tasks>>

WsClose_Evicts(sid) ==
    /\ HasSession(sid)
    /\ sessions[sid].ws
    /\ sessions' = [x \in DOMAIN sessions \ {sid} |-> sessions[x]]
    /\ Handles(Command("close", sid), {})
    /\ UNCHANGED <<queueVars, addVars, sessionOrder, masterUserSessionId, playVars, now, tasks>>

\* ws 'close'
WsClose(sid) ==
    /\ HasSession(sid)
    /\ sessions[sid].ws
    /\ sessions' = [sessions EXCEPT ![sid].ws = FALSE]
    /\ Handles(Command("close", sid), {})
    /\ UNCHANGED <<queueVars, addVars, sessionOrder, masterUserSessionId, playVars, now, tasks>>

masterWasTransferred_Never(dups, me) == FALSE

\* lines 1104-1112: a duplicate is the conductor and the session logging in
\* has a Spotify email and an access token
masterWasTransferred(dups, me) == masterUserSessionId \in dups /\ me.token

\* ws 'login': the session id is not in the map, so that lines 1055-1059 make
\* an empty session for it
isNewSession(sid) == ~HasSession(sid)

\* ws 'login', lines 1165-1180: the user_connected event of a new session
userConnected(sid) ==
    IF isNewSession(sid) THEN <<Event("user_connected", sid)>> ELSE << >>

\* ws 'login' naming a session of the map that carries an identity
WsLoginAccepted(sid) ==
    /\ HasSession(sid)
    /\ sessions[sid].email # Null
    /\ LET me == sessions[sid]
           dups == {d \in DOMAIN sessions \ {sid} :
                        /\ Truthy(sessions[d].email)
                        /\ toLowerCase(sessions[d].email) = toLowerCase(me.email)}
           transferred == masterWasTransferred(dups, me)
           kept == [x \in DOMAIN sessions \ dups |->
                        IF x = sid THEN [me EXCEPT !.ws = TRUE, !.beat = TRUE, !.idle = FALSE]
                        ELSE sessions[x]]
           order == Without(sessionOrder, dups)
           master1 == IF transferred THEN sid ELSE masterUserSessionId
           assigned == IF master1 = Null THEN FirstWithToken(kept, order) ELSE Null
       IN  /\ sessions' = kept
           /\ sessionOrder' = order
           /\ masterUserSessionId' = IF assigned # Null THEN assigned ELSE master1
           \* stopPolling(); startPolling() on a transfer in master_play
           /\ pollInterval' = IF transferred /\ mode = "master_play" THEN TRUE ELSE pollInterval
           \* assignMasterUserIfNeeded runs on, suspended on the playback query
           /\ IF assigned # Null
              THEN /\ CanSuspend
                   /\ tasks' = Suspend(tasks, Task("assignPlayback", Null, kept[assigned].email, NoPlayback, NoPlayback))
              ELSE UNCHANGED tasks
           /\ Emits(Command("login", sid),
                    (IF transferred THEN {"mode"} ELSE {})
                        \cup (IF isNewSession(sid) THEN {"history"} ELSE {}),
                    userConnected(sid))
    /\ UNCHANGED <<queueVars, addVars, mode, trackVars, pollVars, now>>

\* ws 'login' naming a session that carries no identity, be it one of the map
\* or the empty one lines 1055-1059 have just made: lines 1067-1082 delete it
WsLoginRejected(sid) ==
    /\ IF isNewSession(sid) THEN TRUE ELSE sessions[sid].email = Null
    /\ sessions' = [x \in DOMAIN sessions \ {sid} |-> sessions[x]]
    /\ sessionOrder' = Without(sessionOrder, {sid})
    /\ Handles(Command("login", sid), {})
    /\ UNCHANGED <<queueVars, addVars, masterUserSessionId, playVars, now, tasks>>

\* ws 'login': lines 1067-1082 turn away a session without identity
WsLogin(sid) ==
    IF (IF isNewSession(sid) THEN TRUE ELSE sessions[sid].email = Null)
    THEN WsLoginRejected(sid)
    ELSE WsLoginAccepted(sid)

\* GET /api/spotify/login: a session without identity, token or heartbeat
SpotifyLogin(sid) ==
    /\ ~HasSession(sid)
    /\ SessionsSet(sid, Session(Null, FALSE, FALSE))
    /\ Quiet
    /\ UNCHANGED <<queueVars, addVars, masterUserSessionId, playVars, now, tasks>>

\* GET /api/spotify/callback after authorizationCodeGrant: the tokens are
\* stored and the handler waits for getMe
SpotifyTokens(sid) ==
    /\ HasSession(sid)
    /\ sessions[sid].email = Null
    /\ ~sessions[sid].token
    /\ sessions' = [sessions EXCEPT ![sid].token = TRUE]
    /\ Quiet
    /\ UNCHANGED <<queueVars, addVars, sessionOrder, masterUserSessionId, playVars, now, tasks>>

\* GET /api/spotify/callback after getMe: the profile's name and email are
\* stored (for a session the map still holds)
SpotifyProfile(sid, email) ==
    /\ HasSession(sid)
    /\ sessions[sid].email = Null
    /\ sessions[sid].token
    /\ sessions' = [sessions EXCEPT ![sid].email = email]
    /\ Quiet
    /\ UNCHANGED <<queueVars, addVars, sessionOrder, masterUserSessionId, playVars, now, tasks>>

\* ws 'ping' naming the session sid: lastHeartbeat = Date.now()
Ping(sid) ==
    /\ HasSession(sid)
    /\ sessions' = [sessions EXCEPT ![sid].beat = TRUE, ![sid].idle = FALSE]
    /\ Handles(Command("ping", sid), {})
    /\ UNCHANGED <<queueVars, addVars, sessionOrder, masterUserSessionId, playVars, now, tasks>>

\* more than HEARTBEAT_TIMEOUT_MS pass in which the sessions of aged neither
\* log in nor send a ping
HeartbeatsAge(aged) ==
    /\ aged # {}
    /\ \A sid \in aged : ~sessions[sid].idle
    /\ sessions' = [x \in DOMAIN sessions |->
                        IF x \in aged THEN [sessions[x] EXCEPT !.idle = TRUE] ELSE sessions[x]]
    /\ Quiet
    /\ UNCHANGED <<queueVars, addVars, sessionOrder, masterUserSessionId, playVars, now, tasks>>

\* now - session.lastHeartbeat > HEARTBEAT_TIMEOUT_MS; without a lastHeartbeat
\* the difference is NaN and the comparison false
timeSinceHeartbeatOver(session) == session.beat /\ session.idle

\* cleanupStaleSessions, when it finds a stale session
CleanupStaleSessions ==
    LET stale == {sid \in DOMAIN sessions : timeSinceHeartbeatOver(sessions[sid])}
        removed == SelectSeq(sessionOrder, LAMBDA sid : sid \in stale)
    IN  /\ stale # {}
        /\ sessions' = [x \in DOMAIN sessions \ stale |-> sessions[x]]
        /\ sessionOrder' = Without(sessionOrder, stale)
        \* one user_disconnected event per removed session, in the map's order
        /\ Emits(NoCommand, {"sessions_list", "history"},
                 [i \in 1..Len(removed) |-> Event("user_disconnected", removed[i])])
        /\ UNCHANGED <<queueVars, addVars, masterUserSessionId, playVars, now, tasks>>

\* MASTER_CONTROL_EMAILS of the environment, as written there
ConfiguredControlEmails == {"U1"}

MASTER_CONTROL_EMAILS == {toLowerCase(e) : e \in ConfiguredControlEmails}

canTakeMasterControl_Anyone(email) == TRUE

canTakeMasterControl(email) == Truthy(email) /\ toLowerCase(email) \in MASTER_CONTROL_EMAILS

\* ws 'take_master_control' naming the session sid
TakeMasterControl(sid) ==
    /\ LET accepted ==
               /\ HasSession(sid)
               /\ canTakeMasterControl(sessions[sid].email)
               /\ sessions[sid].token
       IN  /\ masterUserSessionId' = IF accepted THEN sid ELSE masterUserSessionId
           \* stopPolling(); startPolling() in master_play
           /\ pollInterval' = IF accepted /\ mode = "master_play" THEN TRUE ELSE pollInterval
           /\ Handles(Command("take_master_control", sid), IF accepted THEN {"mode"} ELSE {})
    /\ UNCHANGED <<queueVars, addVars, sessions, sessionOrder, mode, trackVars, pollVars, now, tasks>>

(***************************************************************************)
(* Queue handlers                                                          *)
(***************************************************************************)
\* who may send a sessionId: the ids of the map and ids the map does not hold
SubmitterEmail(sid) == EmailOf(sid)

\* POST /api/tracks for a track the queue does not hold: the duplicate check,
\* then the insert at once without a conductor token, else the handler
\* suspends on getSpotifyTrackInfo
SubmitTrack(sid, uri) ==
    /\ Len(submittedTracks) < MaxQueue
    /\ ~hasTrack(submittedTracks, uri)
    /\ IF MasterAccessToken
       THEN /\ CanSuspendRequest
            /\ tasks' = Suspend(tasks, Task("submitInfo", uri, SubmitterEmail(sid), NoPlayback, NoPlayback))
            /\ UNCHANGED submittedTracks
       ELSE /\ submittedTracks' = addTrack(submittedTracks, Track(uri, SubmitterEmail(sid)))
            /\ UNCHANGED tasks
    /\ IF MasterAccessToken THEN Quiet
       ELSE Emits(NoCommand, {"tracks_list"}, <<Event("track_added", uri)>>)
    /\ UNCHANGED <<fallbackQueue, addVars, sessionVars, playVars, now>>

\* POST /api/tracks after getSpotifyTrackInfo returned or threw
SubmitResume(t) ==
    /\ t \in Pending("submitInfo")
    /\ submittedTracks' = addTrack(submittedTracks, Track(t.uri, t.email))
    /\ tasks' = Resume(tasks, t)
    /\ Emits(NoCommand, {"tracks_list"}, <<Event("track_added", t.uri)>>)
    /\ UNCHANGED <<fallbackQueue, addVars, sessionVars, playVars, now>>

\* POST /api/master-random-liked up to getRandomLikedTracks
MasterRandomLiked(sid) ==
    /\ sid = masterUserSessionId
    /\ AccessToken(sid)
    /\ Len(submittedTracks) < MaxQueue
    /\ CanSuspendRequest
    /\ tasks' = Suspend(tasks, Task("liked", Null, EmailOf(sid), NoPlayback, NoPlayback))
    /\ Quiet
    /\ UNCHANGED <<queueVars, addVars, sessionVars, playVars, now>>

\* the loop over the liked tracks: each one added unless the queue holds it
RECURSIVE AddLiked(_, _, _)
AddLiked(q, uris, email) ==
    IF uris = << >> THEN q
    ELSE AddLiked(IF hasTrack(q, Head(uris)) THEN q ELSE addTrack(q, Track(Head(uris), email)),
                  Tail(uris), email)

\* what getRandomLikedTracks can return: liked tracks, each once
LikedLists == UNION { Shuffles(S) : S \in SUBSET SubmitUris }

\* POST /api/master-random-liked after getRandomLikedTracks returned
MasterRandomLikedResume(t, liked) ==
    /\ t \in Pending("liked")
    /\ submittedTracks' = AddLiked(submittedTracks, liked, t.email)
    /\ tasks' = Resume(tasks, t)
    /\ Says({"tracks_list"})
    /\ UNCHANGED <<fallbackQueue, addVars, sessionVars, playVars, now>>

\* ws 'remove_track' of a queued track
RemoveTrack(uri) ==
    /\ hasTrack(submittedTracks, uri)
    /\ submittedTracks' = removeTrack(submittedTracks, uri)
    /\ Says({"tracks_list"})
    /\ UNCHANGED <<fallbackQueue, addVars, roomVarsButOut>>

\* ws 'delay_track' of a queued track that is not the last one
DelayTrack(uri) ==
    /\ moveTrackBackOne(submittedTracks, uri) # submittedTracks
    /\ submittedTracks' = moveTrackBackOne(submittedTracks, uri)
    /\ Says({"tracks_list"})
    /\ UNCHANGED <<fallbackQueue, addVars, roomVarsButOut>>

\* a ws 'jam' message
JamCommand(sid, uri, unjam) ==
    [type |-> "jam", sessionId |-> sid, spotifyUri |-> uri, unjam |-> unjam]

\* jamCounts[email], 0 where the object has no such entry
JamCount(jamCounts, email) == IF email \in DOMAIN jamCounts THEN jamCounts[email] ELSE 0

\* whether the jam or unjam block of the handler changes these jamCounts
JamUpdates(jamCounts, email, unjam) == ~unjam \/ JamCount(jamCounts, email) > 0

\* the jamCounts after one pass of the jam or unjam block of the handler
JamBlock(jamCounts, email, unjam) ==
    IF ~unjam
    THEN [e \in DOMAIN jamCounts \cup {email} |->
             IF e = email THEN JamCount(jamCounts, email) + 1 ELSE jamCounts[e]]
    ELSE IF JamCount(jamCounts, email) > 0
    THEN IF jamCounts[email] - 1 = 0
         THEN [e \in DOMAIN jamCounts \ {email} |-> jamCounts[e]]
         ELSE [jamCounts EXCEPT ![email] = @ - 1]
    ELSE jamCounts

\* ws 'jam' on a fallback track that is not the current one: the track moves to
\* the user queue under the jammer's email unless the user queue holds its URI
JamPromote(sid, uri, unjam) ==
    /\ Truthy(EmailOf(sid))
    /\ hasTrack(fallbackQueue, uri)
    /\ currentlyPlayingTrack.spotifyUri # uri
    /\ ~hasTrack(submittedTracks, uri)
    /\ fallbackQueue' = removeFallbackTrack(fallbackQueue, uri)
    /\ submittedTracks' = addTrack(submittedTracks,
                                   Jammed(uri, EmailOf(sid), JamBlock(NoJams, EmailOf(sid), FALSE)))
    /\ Emits(JamCommand(sid, uri, unjam), {"tracks_list"}, <<Event("track_added", uri)>>)
    /\ UNCHANGED <<addVars, roomVarsButOut>>

\* the most jams one participant holds on one track
MaxJams == 2

\* currentlyPlayingTrack is the very object a queue holds: peekNextTrack hands
\* out the queue's head itself and the object stays queued until it is consumed
CurrentIsQueued(q) ==
    /\ currentlyPlayingTrack # NoTrack
    /\ ~currentTrackConsumed
    /\ hasTrack(q, currentlyPlayingTrack.spotifyUri)

\* the queue with the jamCounts of its first entry of that URI replaced
WithJamCounts(q, uri, jamCounts) ==
    IF FindIndex(q, uri) = -1 THEN q
    ELSE [q EXCEPT ![FindIndex(q, uri) + 1].jamCounts = jamCounts]

\* ws 'jam' on anything but a fallback track that is not the current one: the
\* block runs on the queued track of that URI and then on the current track
\* of that URI, which may be one and the same object
JamTrack(sid, uri, unjam) ==
    LET jammerEmail == EmailOf(sid)
        idx == FindIndex(submittedTracks, uri)
        isCurrent == currentlyPlayingTrack # NoTrack /\ currentlyPlayingTrack.spotifyUri = uri
        sameObject == idx # -1 /\ isCurrent /\ ~currentTrackIsFallback
                          /\ CurrentIsQueued(submittedTracks)
        fallbackObject == isCurrent /\ currentTrackIsFallback /\ CurrentIsQueued(fallbackQueue)
        queued == IF idx # -1 THEN submittedTracks[idx + 1].jamCounts ELSE NoJams
        afterQueued == IF idx # -1 THEN JamBlock(queued, jammerEmail, unjam) ELSE queued
        current == IF sameObject THEN afterQueued ELSE currentlyPlayingTrack.jamCounts
        afterCurrent == IF isCurrent THEN JamBlock(current, jammerEmail, unjam) ELSE current
        updated == \/ idx # -1 /\ JamUpdates(queued, jammerEmail, unjam)
                   \/ isCurrent /\ JamUpdates(current, jammerEmail, unjam)
    IN  /\ Truthy(jammerEmail)
        /\ ~(hasTrack(fallbackQueue, uri) /\ ~isCurrent)
        /\ ~unjam => JamCount(queued, jammerEmail) < MaxJams
                      /\ JamCount(currentlyPlayingTrack.jamCounts, jammerEmail) < MaxJams
        /\ submittedTracks' =
              WithJamCounts(submittedTracks, uri, IF sameObject THEN afterCurrent ELSE afterQueued)
        /\ fallbackQueue' =
              IF fallbackObject THEN WithJamCounts(fallbackQueue, uri, afterCurrent)
              ELSE fallbackQueue
        /\ currentlyPlayingTrack' =
              IF isCurrent THEN [currentlyPlayingTrack EXCEPT !.jamCounts = afterCurrent]
              ELSE currentlyPlayingTrack
        /\ IF updated
           THEN Emits(JamCommand(sid, uri, unjam), {"tracks_list", "mode", "history"},
                      <<Event(IF unjam THEN "unjam" ELSE "jam", uri)>>)
           ELSE Handles(JamCommand(sid, uri, unjam), {})
        /\ UNCHANGED <<addVars, sessionVars, mode, currentProgress, currentTrackIsFallback,
                       currentTrackConsumed, pollVars, pollInterval, now, tasks>>

(***************************************************************************)
(* The provider                                                            *)
(***************************************************************************)
\* item.duration_ms of every track of the model
DurationMs == 100

\* progress_ms a playback query can report: at the start, past 90 % and at the
\* end
Progresses == {0, 95, DurationMs}

\* curr as pollMasterUserPlayback builds it from a playback response
PlaybackStates ==
    {NoPlayback} \cup
    [uri : ProviderUris, progress_ms : Progresses, duration_ms : {DurationMs},
     is_playing : {"true", "false"}]

\* loadFallbackPlaylist returned false
LoadFailed == [ok |-> FALSE, tracks |-> << >>]

\* what loadFallbackPlaylist can come back with
LoadOutcomes == {LoadFailed} \cup {[ok |-> TRUE, tracks |-> fb] : fb \in LoadedFallbacks}

\* some session holds an access token: a play or pause loop awaits the provider
AnyToken == \E sid \in DOMAIN sessions : sessions[sid].token

(***************************************************************************)
(* The playback state as one value, so that a handler's segments compose   *)
(***************************************************************************)
Globals ==
    [q |-> submittedTracks, fb |-> fallbackQueue, mode |-> mode,
     cur |-> currentlyPlayingTrack, progress |-> currentProgress,
     isFb |-> currentTrackIsFallback, consumed |-> currentTrackConsumed,
     lastMPS |-> lastMasterPlaybackState, started |-> masterTrackStarted,
     last |-> lastPlaybackState, lastCmd |-> lastTrackChangeCommand,
     lastSkip |-> lastManualSkipAt, failT |-> playbackFailureCheckTime,
     expected |-> expectedPlayingUri, polling |-> pollInterval,
     seen |-> {}, errTo |-> {}, said |-> {}, from |-> NoCommand, pushed |-> << >>,
     events |-> << >>, fbUrl |-> currentFallbackPlaylistUrl,
     fbName |-> currentFallbackPlaylistName]

Commit(g) ==
    /\ submittedTracks' = g.q
    /\ fallbackQueue' = g.fb
    /\ mode' = g.mode
    /\ currentlyPlayingTrack' = g.cur
    /\ currentProgress' = g.progress
    /\ currentTrackIsFallback' = g.isFb
    /\ currentTrackConsumed' = g.consumed
    /\ lastMasterPlaybackState' = g.lastMPS
    /\ masterTrackStarted' = g.started
    /\ lastPlaybackState' = g.last
    /\ lastTrackChangeCommand' = g.lastCmd
    /\ lastManualSkipAt' = g.lastSkip
    /\ playbackFailureCheckTime' = g.failT
    /\ expectedPlayingUri' = g.expected
    /\ pollInterval' = g.polling
    /\ observed' = g.seen
    /\ playbackErrorTo' = g.errTo
    /\ broadcasts' = g.said
    /\ command' = g.from
    /\ playHistoryPushed' = g.pushed
    /\ historyPushed' = g.events
    /\ historyLength' = pushAndBroadcast(historyLength, g.events)
    /\ currentFallbackPlaylistUrl' = g.fbUrl
    /\ currentFallbackPlaylistName' = g.fbName
    /\ playlistResponse' = NoResponse

\* a segment's outcome: the state it leaves and where the handler waits next
Done(g) == [g |-> g, next |-> "done"]

At(g, pc) == [g |-> g, next |-> pc]

\* a handler starts and runs to its first provider call or to its end
Start(r, t) ==
    /\ Commit(r.g)
    /\ IF r.next = "done" THEN UNCHANGED tasks
       ELSE CanSuspend /\ tasks' = Suspend(tasks, [t EXCEPT !.pc = r.next])
    /\ UNCHANGED <<addVars, sessionVars, now>>

\* the locals a suspended handler still reads: prev and curr up to the
\* track-end detection, curr up to the play/pause comparison
Locals(t, pc) ==
    [t EXCEPT !.pc = pc,
              !.prev = IF pc \in {"failLoad", "failPlay"} THEN @ ELSE NoPlayback,
              !.curr = IF pc \in {"failLoad", "failPlay", "correctPlay", "finishLoad", "finishPlay"}
                       THEN @ ELSE NoPlayback]

\* a suspended handler runs on to its next provider call or to its end
Continue(r, t) ==
    /\ Commit(r.g)
    /\ tasks' = IF r.next = "done" THEN Resume(tasks, t)
                ELSE Suspend(Resume(tasks, t), Locals(t, r.next))
    /\ UNCHANGED <<addVars, sessionVars, now>>

NoLocals == Task("start", Null, Null, NoPlayback, NoPlayback)

\* broadcastMode() and broadcastTrackList() calls of a segment
Broadcast(g, b) == [g EXCEPT !.said = @ \cup b]

PushHistory_Never(g) == g

\* playHistory.push of the current track where there is one
PushHistory(g) == IF g.cur # NoTrack THEN [g EXCEPT !.pushed = Append(@, g.cur)] ELSE g

\* startPlaybackFailureTracking
startPlaybackFailureTracking(g, uri) == [g EXCEPT !.expected = uri, !.failT = now]

\* setCurrentTrackAndStart up to playTrackForSessions; the nominated track
\* comes from a queue and carries no progress
setCurrentTrackAndStart(g, track, isFallback) ==
    startPlaybackFailureTracking(
        [g EXCEPT !.cur = track, !.progress = NoProgress, !.isFb = isFallback,
                  !.consumed = FALSE, !.started = FALSE, !.lastCmd = now,
                  \* recordFallbackPlay
                  !.events = IF isFallback
                             THEN Append(@, Event("fallback_play", track.spotifyUri))
                             ELSE @],
        track.spotifyUri)

\* peekNextTrack of the state g where it needs no provider call
Peek(g) == peekNextTrack(g.q, g.fb)

MustLoad(g, token) == PeekMustLoad(g.q, g.fb, token)

\* loadFallbackPlaylist's effect on the state
\* the playlist state of the QueueManager
Playlist(url, name, fb) == [url |-> url, name |-> name, fb |-> fb]

loadFallbackPlaylist_StoresFirst(playlist, playlistUrl, outcome) ==
    IF outcome.ok
    THEN Playlist(playlistUrl, PlaylistName(playlistUrl), outcome.tracks)
    ELSE [playlist EXCEPT !.url = playlistUrl]

\* the playlist state after loadFallbackPlaylist(playlistUrl, accessToken)
\* with a token: the URL, the name and the queue are written only once both
\* fetches have returned
loadFallbackPlaylist(playlist, playlistUrl, outcome) ==
    IF outcome.ok
    THEN Playlist(playlistUrl, PlaylistName(playlistUrl), outcome.tracks)
    ELSE playlist

Loaded(g, outcome) ==
    LET playlist == loadFallbackPlaylist(Playlist(g.fbUrl, g.fbName, g.fb), g.fbUrl, outcome)
    IN  [g EXCEPT !.fbUrl = playlist.url, !.fbName = playlist.name, !.fb = playlist.fb]

\* POST /api/tracks with a playlist: 400 without a conductor token, else the
\* handler waits for loadFallbackPlaylist
SubmitPlaylist(sid, url) ==
    /\ IF MasterAccessToken
       THEN /\ CanSuspendRequest
            /\ tasks' = Suspend(tasks, Task("playlistLoad", url, Null, NoPlayback, NoPlayback))
            /\ playlistResponse' = NoResponse
       ELSE /\ UNCHANGED tasks
            /\ playlistResponse' = 400
    /\ Outputs(NoCommand, {}, << >>)
    /\ UNCHANGED <<queueVars, addVars, sessionVars, playVars, now, playlistVars>>

\* loadFallbackPlaylist returned: broadcastMode and 200 on success, else 400
SubmitPlaylistResume(t, outcome) ==
    /\ t \in Pending("playlistLoad")
    /\ LET playlist == loadFallbackPlaylist(
                           Playlist(currentFallbackPlaylistUrl, currentFallbackPlaylistName,
                                    fallbackQueue),
                           t.uri, outcome)
       IN  /\ currentFallbackPlaylistUrl' = playlist.url
           /\ currentFallbackPlaylistName' = playlist.name
           /\ fallbackQueue' = playlist.fb
    /\ tasks' = Resume(tasks, t)
    /\ playlistResponse' = IF outcome.ok THEN 200 ELSE 400
    /\ Outputs(NoCommand, IF outcome.ok THEN {"mode"} ELSE {}, << >>)
    /\ UNCHANGED <<submittedTracks, addVars, sessionVars, playVars, now>>

\* peekNextTrack's answer after its loadFallbackPlaylist returned
PeekAfterLoad(g, outcome) ==
    IF outcome.ok /\ Len(outcome.tracks) > 0
    THEN [track |-> outcome.tracks[1], isFallback |-> TRUE]
    ELSE NoNext

\* no next track: lines 763-771 and 929-937
StopPlayback(g) ==
    [g EXCEPT !.cur = NoTrack, !.progress = NoProgress, !.started = FALSE, !.consumed = TRUE,
              !.mode = "master_pause",
              !.said = IF g.mode # "master_pause" THEN @ \cup {"tracks_list", "mode"} ELSE @]

InGracePeriod(g) == now - g.lastCmd < TRACK_CHANGE_GRACE_PERIOD_MS

JustManuallySkipped(g) == g.lastSkip # 0 /\ now - g.lastSkip < TRACK_CHANGE_GRACE_PERIOD_MS

(***************************************************************************)
(* pollMasterUserPlayback, a segment per stretch between provider calls    *)
(***************************************************************************)
\* position_ms > 0, duration_ms > 0 and position_ms / duration_ms >= 1.0
Finished(progress) == progress # NoProgress /\ progress > 0 /\ progress >= DurationMs

\* lines 942-993: the conductor's play/pause state against the room's mode
PollConfirm(g, curr) ==
    LET newState == IF curr.is_playing = "true" THEN "play" ELSE "pause"
        g1 == [g EXCEPT !.lastMPS = newState]
        g2 == [g1 EXCEPT !.mode = "master_play"]
        g3 == [g2 EXCEPT !.started = TRUE]
        left == consumeNextTrack(g.q, g.fb, g.isFb)
    IN  IF newState = g.lastMPS
        THEN IF g.cur # NoTrack /\ g.progress # NoProgress THEN Broadcast(g, {"mode"}) ELSE g
        ELSE IF newState = "play" /\ g.mode # "master_play"
             THEN Broadcast(IF g.cur = NoTrack THEN g2
                            ELSE IF g.consumed THEN g3
                            ELSE [g3 EXCEPT !.q = left[1], !.fb = left[2], !.consumed = TRUE],
                            {"mode"})
        ELSE IF newState = "pause" /\ g.mode # "master_pause"
             THEN IF InGracePeriod(g) THEN g1
                  ELSE IF g.started /\ g.cur # NoTrack /\ Finished(g.progress) THEN g1
                  ELSE Broadcast([g1 EXCEPT !.mode = "master_pause"], {"mode"})
        ELSE g1

\* lines 924-938: the track finished and peekNextTrack answered; sessionPlay says
\* whether a session holding a token is in session_play, whose play call the
\* handler awaits
PollFinishNominate(g, curr, info, sessionPlay) ==
    IF info # NoNext
    THEN IF sessionPlay /\ AnyToken
         THEN At(setCurrentTrackAndStart(g, info.track, info.isFallback), "finishPlay")
         ELSE Done(PollConfirm(Broadcast(setCurrentTrackAndStart(g, info.track, info.isFallback),
                                         {"tracks_list", "mode"}), curr))
    ELSE Done(PollConfirm(StopPlayback(g), curr))

\* lines 882-940: progress of the current track and the check for its end
PollProgress(g, curr, sessionPlay) ==
    LET g1 == IF g.cur # NoTrack THEN [g EXCEPT !.progress = curr.progress_ms] ELSE g
    IN  IF g1.started /\ g1.cur # NoTrack /\ Finished(g1.progress)
        THEN IF MustLoad(g1, TRUE) THEN At(PushHistory(g1), "finishLoad")
             ELSE PollFinishNominate(PushHistory(g1), curr, Peek(g1), sessionPlay)
        ELSE Done(PollConfirm(g1, curr))

\* the tracks that carry no name and artist: POST /api/tracks adds the track
\* info only when a conductor holds a token and getSpotifyTrackInfo succeeds
\* (lines 1838-1850); X stands for a track submitted without it
UndescribedUris == {"X"}

\* newTrack.name && newTrack.artist

hasNameAndArtist(track) == track.spotifyUri \notin UndescribedUris

SyncToQueued_Unannounced(g, uri) ==
    [g EXCEPT !.lastSkip = IF JustManuallySkipped(g) THEN 0 ELSE @,
              !.cur = g.q[FindIndex(g.q, uri) + 1],
              !.progress = NoProgress,
              !.q = SpliceOut(g.q, FindIndex(g.q, uri)),
              !.started = TRUE,
              !.pushed = Append(@, g.cur),
              !.said = @ \cup {"tracks_list", "mode"}]

\* lines 821-864: the conductor moved on to a queued track; it becomes current
\* and leaves the queue
SyncToQueued(g, uri) ==
    [g EXCEPT !.lastSkip = IF JustManuallySkipped(g) THEN 0 ELSE @,
              \* lines 838-858: track_play unless a manual skip came just before
              \* or the track carries no name and artist
              !.events = IF ~JustManuallySkipped(g) /\ hasNameAndArtist(g.q[FindIndex(g.q, uri) + 1])
                         THEN Append(@, Event("track_play", uri))
                         ELSE @,
              !.cur = g.q[FindIndex(g.q, uri) + 1],
              !.progress = NoProgress,
              !.q = SpliceOut(g.q, FindIndex(g.q, uri)),
              !.started = TRUE,
              !.pushed = Append(@, g.cur),
              !.said = @ \cup {"tracks_list", "mode"}]

\* lines 777-880: the paused room, then the conductor's track against the
\* current one
PollModes(g, curr, sessionPlay) ==
    IF g.mode = "master_pause"
    THEN Done(Broadcast(IF g.cur # NoTrack THEN [g EXCEPT !.progress = curr.progress_ms] ELSE g,
                        {"mode"}))
    ELSE IF curr.is_playing = Null THEN Done(g)
    ELSE IF g.cur # NoTrack /\ curr.uri # Null /\ curr.uri # g.cur.spotifyUri
         THEN IF InGracePeriod(g) THEN PollProgress(g, curr, sessionPlay)
              ELSE IF hasTrack(g.q, curr.uri)
                   THEN PollProgress(SyncToQueued(g, curr.uri), curr, sessionPlay)
              ELSE At(g, "correctPlay")
    ELSE PollProgress(g, curr, sessionPlay)

\* lines 759-773: a track end was detected and peekNextTrack answered
PollEndNominate(g, info) ==
    IF info # NoNext
    THEN Done(Broadcast(setCurrentTrackAndStart(g, info.track, info.isFallback),
                        {"tracks_list", "mode"}))
    ELSE Done(StopPlayback(g))

\* lines 720-735: progress reset to 0 after being near the end, or another URI
\* after being near the end
DetectedTrackEnd(prev, curr) ==
    /\ prev.uri # Null
    /\ curr.uri # Null
    /\ prev.progress_ms # NoProgress
    /\ prev.duration_ms # NoProgress
    /\ 10 * prev.progress_ms > 9 * prev.duration_ms
    /\ \/ prev.uri = curr.uri /\ curr.progress_ms = 0
       \/ prev.uri # curr.uri

\* lines 718-775
PollRest(g, prev, curr, sessionPlay) ==
    IF DetectedTrackEnd(prev, curr)
    THEN IF JustManuallySkipped(g)
         THEN PollModes([g EXCEPT !.lastSkip = 0], curr, sessionPlay)
         ELSE IF MustLoad(g, TRUE) THEN At(PushHistory(g), "endLoad")
         ELSE PollEndNominate(PushHistory(g), Peek(g))
    ELSE PollModes(g, curr, sessionPlay)

\* lines 681-708: after a playback failure peekNextTrack answered
PollFailNominate(g, prev, curr, info, sessionPlay) ==
    IF info # NoNext
    THEN IF AnyToken
         THEN At(startPlaybackFailureTracking([g EXCEPT !.cur = info.track, !.progress = NoProgress],
                                               info.track.spotifyUri), "failPlay")
         ELSE PollRest(Broadcast(startPlaybackFailureTracking(
                                     [g EXCEPT !.cur = info.track, !.progress = NoProgress],
                                     info.track.spotifyUri), {"tracks_list"}),
                       prev, curr, sessionPlay)
    ELSE PollRest(g, prev, curr, sessionPlay)

\* lines 657: the expected track is not the one playing
PlaybackFailed(g, curr) == curr.uri # g.expected \/ curr.is_playing # "true"

FailureWindowOver(g) ==
    g.expected # Null /\ g.failT > 0 /\ now - g.failT > PLAYBACK_FAILURE_TIMEOUT_MS

\* lines 651-716
PollFailureCheck(g, prev, curr, sessionPlay) ==
    IF FailureWindowOver(g)
    THEN IF PlaybackFailed(g, curr)
         THEN LET g1 == [g EXCEPT !.errTo = OpenSessions, !.said = {"tracks_list"},
                                  !.cur = NoTrack, !.progress = NoProgress,
                                  !.expected = Null, !.failT = 0]
              IN  IF MustLoad(g1, TRUE) THEN At(g1, "failLoad")
                  ELSE PollFailNominate(g1, prev, curr, Peek(g1), sessionPlay)
         ELSE PollRest([g EXCEPT !.expected = Null, !.failT = 0], prev, curr, sessionPlay)
    ELSE PollRest(g, prev, curr, sessionPlay)

\* time passes
Tick ==
    /\ now < StartTime + MaxClock * ClockStep
    /\ now' = now + ClockStep
    /\ Quiet
    /\ UNCHANGED <<queueVars, addVars, sessionVars, playVars, tasks>>

\* the setInterval callback fires: with a conductor holding a token the tick
\* waits for getMyCurrentPlaybackState
PollTick ==
    /\ pollInterval
    /\ MasterAccessToken
    /\ CanSuspend
    /\ tasks' = Suspend(tasks, Task("pollPlayback", Null, Null, NoPlayback, NoPlayback))
    /\ Quiet
    /\ UNCHANGED <<queueVars, addVars, sessionVars, playVars, now>>

\* getMyCurrentPlaybackState threw: the catch at line 995 ends the tick
PollError(t) ==
    /\ t \in Pending("pollPlayback")
    /\ tasks' = Resume(tasks, t)
    /\ Quiet
    /\ UNCHANGED <<queueVars, addVars, sessionVars, playVars, now>>

\* getMyCurrentPlaybackState returned curr: lines 642-649 and on
PollPlayback(t, curr, sessionPlay) ==
    /\ t \in Pending("pollPlayback")
    /\ LET r == PollFailureCheck([Globals EXCEPT !.last = curr, !.seen = {curr}],
                                 lastPlaybackState, curr, sessionPlay)
       IN  /\ Commit(r.g)
           /\ tasks' = IF r.next = "done" THEN Resume(tasks, t)
                       ELSE Suspend(Resume(tasks, t),
                                    Locals([t EXCEPT !.prev = lastPlaybackState, !.curr = curr],
                                           r.next))
           /\ UNCHANGED <<addVars, sessionVars, now>>

\* peekNextTrack's loadFallbackPlaylist returned, line 679
PollFailLoad(t, outcome, sessionPlay) ==
    /\ t \in Pending("failLoad")
    /\ Continue(PollFailNominate(Loaded(Globals, outcome), t.prev, t.curr,
                                 PeekAfterLoad(Globals, outcome), sessionPlay), t)

\* the play calls of lines 695-705 returned
PollFailPlay(t, sessionPlay) ==
    /\ t \in Pending("failPlay")
    /\ Continue(PollRest(Broadcast(Globals, {"tracks_list"}), t.prev, t.curr, sessionPlay), t)

\* peekNextTrack's loadFallbackPlaylist returned, line 757
PollEndLoad(t, outcome) ==
    /\ t \in Pending("endLoad")
    /\ Continue(PollEndNominate(Loaded(Globals, outcome), PeekAfterLoad(Globals, outcome)), t)

\* the correcting play call of line 869 returned or threw
PollCorrectPlay(t, sessionPlay) ==
    /\ t \in Pending("correctPlay")
    /\ Continue(PollProgress(Globals, t.curr, sessionPlay), t)

\* peekNextTrack's loadFallbackPlaylist returned, line 922
PollFinishLoad(t, outcome, sessionPlay) ==
    /\ t \in Pending("finishLoad")
    /\ Continue(PollFinishNominate(Loaded(Globals, outcome), t.curr,
                                   PeekAfterLoad(Globals, outcome), sessionPlay), t)

\* setCurrentTrackAndStart of line 926 returned
PollFinishPlay(t) ==
    /\ t \in Pending("finishPlay")
    /\ Continue(Done(PollConfirm(Broadcast(Globals, {"tracks_list", "mode"}), t.curr)), t)

(***************************************************************************)
(* Playback handlers                                                       *)
(***************************************************************************)
\* lines 1417-1424: command the current track, then start polling
MasterPlayCommand(g) ==
    IF g.cur # NoTrack
    THEN IF AnyToken
         THEN At(startPlaybackFailureTracking([g EXCEPT !.lastCmd = now], g.cur.spotifyUri),
                 "playPlay")
         ELSE Done(Broadcast([startPlaybackFailureTracking([g EXCEPT !.lastCmd = now],
                                                           g.cur.spotifyUri)
                                  EXCEPT !.polling = TRUE], {"mode"}))
    ELSE Done(Broadcast([g EXCEPT !.polling = TRUE], {"mode"}))

\* lines 1403-1416: the peeked track becomes current, not consumed
MasterPlayNominate(g, info) ==
    MasterPlayCommand(
        IF info # NoNext
        THEN Broadcast([g EXCEPT !.cur = info.track, !.progress = NoProgress,
                                 !.isFb = info.isFallback, !.consumed = FALSE],
                       {"tracks_list"})
        ELSE g)

\* ws 'master_play' from the socket of sid while the room is paused
MasterPlay(sid) ==
    /\ mode # "master_play"
    /\ LET g == [Globals EXCEPT !.mode = "master_play", !.from = Command("master_play", sid)]
       IN  Start(IF g.cur # NoTrack THEN MasterPlayCommand(g)
                 ELSE IF MustLoad(g, MasterAccessToken) THEN At(g, "playLoad")
                 ELSE MasterPlayNominate(g, Peek(g)),
                 NoLocals)

MasterPlayLoad(t, outcome) ==
    /\ t \in Pending("playLoad")
    /\ Continue(MasterPlayNominate(Loaded(Globals, outcome), PeekAfterLoad(Globals, outcome)), t)

\* playTrackForSessions returned: broadcastMode and startPolling
MasterPlayPlay(t) ==
    /\ t \in Pending("playPlay")
    /\ Continue(Done(Broadcast([Globals EXCEPT !.polling = TRUE], {"mode"})), t)

\* ws 'master_pause' from the socket of sid while the room plays
MasterPause(sid) ==
    /\ mode # "master_pause"
    /\ LET g == [Globals EXCEPT !.mode = "master_pause", !.from = Command("master_pause", sid)]
       IN  Start(IF AnyToken THEN At(g, "pausePause")
                 ELSE Done(Broadcast([g EXCEPT !.polling = FALSE], {"mode"})),
                 NoLocals)

\* the pause calls returned: broadcastMode and stopPolling
MasterPausePause(t) ==
    /\ t \in Pending("pausePause")
    /\ Continue(Done(Broadcast([Globals EXCEPT !.polling = FALSE], {"mode"})), t)

\* lines 1487-1492
MasterSkipNominate(g, info) ==
    IF info # NoNext
    THEN Done(Broadcast(setCurrentTrackAndStart(g, info.track, info.isFallback),
                        {"tracks_list", "mode"}))
    ELSE Done(g)

\* lines 1469-1479: the track_skip event for the current track
SkipEvent(g) ==
    IF g.cur # NoTrack THEN [g EXCEPT !.events = Append(@, Event("track_skip", g.cur.spotifyUri))]
    ELSE g

\* ws 'master_skip' from the socket of sid while the room plays
MasterSkip(sid) ==
    /\ mode = "master_play"
    /\ LET g == SkipEvent(PushHistory([Globals EXCEPT !.lastSkip = now,
                                                      !.from = Command("master_skip", sid)]))
       IN  Start(IF MustLoad(g, MasterAccessToken) THEN At(g, "skipLoad")
                 ELSE MasterSkipNominate(g, Peek(g)),
                 NoLocals)

MasterSkipLoad(t, outcome) ==
    /\ t \in Pending("skipLoad")
    /\ Continue(MasterSkipNominate(Loaded(Globals, outcome), PeekAfterLoad(Globals, outcome)), t)

\* lines 1520-1527
StartFallbackNominate(g, info) ==
    IF info # NoNext
    THEN IF AnyToken
         THEN At(setCurrentTrackAndStart([g EXCEPT !.mode = "master_play"],
                                         info.track, info.isFallback), "fallbackPlay")
         ELSE Done(Broadcast([setCurrentTrackAndStart([g EXCEPT !.mode = "master_play"],
                                                      info.track, info.isFallback)
                                  EXCEPT !.polling = TRUE], {"tracks_list", "mode"}))
    ELSE Done(g)

\* ws 'start_fallback' from the socket of sid with a conductor holding a token
StartFallback(sid) ==
    /\ MasterAccessToken
    /\ LET g == PushHistory([Globals EXCEPT !.from = Command("start_fallback", sid)])
       IN  Start(IF MustLoad(g, TRUE) THEN At(g, "fallbackLoad")
                 ELSE StartFallbackNominate(g, Peek(g)),
                 NoLocals)

StartFallbackLoad(t, outcome) ==
    /\ t \in Pending("fallbackLoad")
    /\ Continue(StartFallbackNominate(Loaded(Globals, outcome), PeekAfterLoad(Globals, outcome)),
                t)

\* setCurrentTrackAndStart returned: startPolling
StartFallbackPlay(t) ==
    /\ t \in Pending("fallbackPlay")
    /\ Continue(Done(Broadcast([Globals EXCEPT !.polling = TRUE], {"tracks_list", "mode"})), t)

(***************************************************************************)
(* assignMasterUserIfNeeded after the conductor is chosen                  *)
(***************************************************************************)
\* lines 519-523: the fallback playlist is loaded unless the queue holds tracks
AssignLoadIfEmpty(g) == IF Len(g.fb) = 0 THEN At(g, "assignLoad") ELSE Done(g)

\* lines 484-513: the track the new conductor is found playing becomes current
\* and its play state the room's mode
AdoptPlayback(g, email, playback) ==
    IF playback.uri = Null THEN g
    ELSE [g EXCEPT !.said = {"mode"},
                   !.cur = Track(playback.uri, email),
                   !.progress = IF playback.progress_ms # 0 THEN playback.progress_ms
                                ELSE NoProgress,
                   !.mode = IF playback.is_playing = "true" THEN "master_play"
                            ELSE "master_pause",
                   !.polling = (playback.is_playing = "true") \/ @]

\* getMyCurrentPlaybackState and getSpotifyTrackInfo returned
AssignPlayback(t, playback) ==
    /\ t \in Pending("assignPlayback")
    /\ Continue(AssignLoadIfEmpty(AdoptPlayback(Globals, t.email, playback)), t)

\* one of them threw: the catch at line 514
AssignPlaybackError(t) ==
    /\ t \in Pending("assignPlayback")
    /\ Continue(AssignLoadIfEmpty(Globals), t)

AssignLoad(t, outcome) ==
    /\ t \in Pending("assignLoad")
    /\ Continue(Done(Loaded(Globals, outcome)), t)

(***************************************************************************)
(* The handlers by group                                                   *)
(***************************************************************************)
\* what the conductor's player is found doing when the role is assigned while
\* the queues are written: nothing, or a track at its start
AdoptedStates == {p \in PlaybackStates : p = NoPlayback \/ p.progress_ms = 0}

SessionStep ==
    \/ \E login \in ListenerLogins : ListenerLogin(login[1], login[2])
    \/ \E login \in SpotifyLogins : SpotifyCallback(login[1], login[2])
    \/ \E sid \in SessionIds : WsLogin(sid)
    \/ \E sid \in SessionIds : WsClose(sid)
    \/ \E t \in BagToSet(tasks), playback \in AdoptedStates : AssignPlayback(t, playback)
    \/ \E t \in BagToSet(tasks) : AssignPlaybackError(t)
    \/ \E t \in BagToSet(tasks), outcome \in LoadOutcomes : AssignLoad(t, outcome)

QueueStep ==
    \/ \E sid \in SessionIds, uri \in SubmitUris : SubmitTrack(sid, uri)
    \/ \E t \in BagToSet(tasks) : SubmitResume(t)
    \/ \E uri \in SubmitUris \cup PlaylistUris : RemoveTrack(uri)
    \/ \E uri \in SubmitUris \cup PlaylistUris : DelayTrack(uri)
    \/ \E sid \in SessionIds, uri \in PlaylistUris : JamPromote(sid, uri, FALSE)

LikedStep ==
    \/ \E sid \in SessionIds : MasterRandomLiked(sid)
    \/ \E t \in BagToSet(tasks), liked \in LikedLists : MasterRandomLikedResume(t, liked)

PlaybackStep ==
    \/ \E sid \in SessionIds : MasterPlay(sid)
    \/ \E t \in BagToSet(tasks), outcome \in LoadOutcomes : MasterPlayLoad(t, outcome)
    \/ \E t \in BagToSet(tasks) : MasterPlayPlay(t)
    \/ \E sid \in SessionIds : MasterPause(sid)
    \/ \E t \in BagToSet(tasks) : MasterPausePause(t)
    \/ \E sid \in SessionIds : MasterSkip(sid)
    \/ \E t \in BagToSet(tasks), outcome \in LoadOutcomes : MasterSkipLoad(t, outcome)
    \/ \E sid \in SessionIds : StartFallback(sid)
    \/ \E t \in BagToSet(tasks), outcome \in LoadOutcomes : StartFallbackLoad(t, outcome)
    \/ \E t \in BagToSet(tasks) : StartFallbackPlay(t)

PollStep ==
    \/ PollTick
    \/ \E t \in BagToSet(tasks) : PollError(t)
    \/ \E t \in BagToSet(tasks), curr \in PlaybackStates, sp \in BOOLEAN :
            PollPlayback(t, curr, sp)
    \/ \E t \in BagToSet(tasks), outcome \in LoadOutcomes, sp \in BOOLEAN :
            PollFailLoad(t, outcome, sp)
    \/ \E t \in BagToSet(tasks), sp \in BOOLEAN : PollFailPlay(t, sp)
    \/ \E t \in BagToSet(tasks), outcome \in LoadOutcomes : PollEndLoad(t, outcome)
    \/ \E t \in BagToSet(tasks), sp \in BOOLEAN : PollCorrectPlay(t, sp)
    \/ \E t \in BagToSet(tasks), outcome \in LoadOutcomes, sp \in BOOLEAN :
            PollFinishLoad(t, outcome, sp)
    \/ \E t \in BagToSet(tasks) : PollFinishPlay(t)

(***************************************************************************)
(* SpecQueue: the room from its construction, the sessions and the         *)
(* handlers that write the queues                                          *)
(***************************************************************************)
InitQueue ==
    /\ submittedTracks = << >>
    /\ fallbackQueue = << >>
    /\ preQueue = << >>
    /\ lastAdded = Null
    /\ addCount = 0
    /\ lastCall = NoCall
    /\ RoomInit

NextQueue == SessionStep \/ QueueStep \/ LikedStep

SpecQueue == InitQueue /\ [][NextQueue]_vars

(***************************************************************************)
(* SpecPlay: playback in a room that has formed. The conductor s1 and the  *)
(* listener s2 have logged in, tracks have been submitted, the fallback    *)
(* playlist has not loaded and nothing has played yet                      *)
(***************************************************************************)
\* the user queues the room starts from
StartQueues ==
    { <<Track("X", "u1")>>,
      <<Track("X", "u1"), Track("Y", "u2")>>,
      <<Track("Y", "u2"), Track("X", "u1")>> }

\* the sessions map of the formed room: the conductor's socket is open, the
\* listener's has closed
FormedSessions ==
    [sid \in SessionIds |->
        [(IF sid = "s1" THEN Session("u1", TRUE, TRUE) ELSE Session("u2", FALSE, FALSE))
            EXCEPT !.beat = TRUE]]

\* the formed room with the fallback queue fb
FormedRoom(queues, fallbacks) ==
    /\ submittedTracks \in queues
    /\ fallbackQueue \in fallbacks
    /\ NameAsLoaded
    /\ preQueue = << >>
    /\ lastAdded = Null
    /\ addCount = 0
    /\ lastCall = NoCall
    /\ sessions = FormedSessions
    /\ sessionOrder = <<"s1", "s2">>
    /\ masterUserSessionId = "s1"
    /\ PlayInit
    /\ LongRun

RoomFormed(fb) == FormedRoom(StartQueues, {fb})

InitPlay == RoomFormed(<< >>)

NextPlay == PlaybackStep \/ PollStep \/ Tick

SpecPlay == InitPlay /\ [][NextPlay]_vars

(***************************************************************************)
(* SpecReorder: the formed room while participants reorder the user queue  *)
(* between the conductor's commands; the poll timer's ticks are left out.  *)
(* The fallback playlist has loaded when the conductor was assigned, or it *)
(* has not                                                                 *)
(***************************************************************************)
InitReorder == \E fb \in {<< >>} \cup LoadedFallbacks : RoomFormed(fb)

\* remove_track and delay_track stand for the inbound messages that reorder
\* the user queue while tracks play
ReorderStep ==
    \/ \E uri \in SubmitUris : RemoveTrack(uri)
    \/ \E uri \in SubmitUris : DelayTrack(uri)

NextReorder == ReorderStep \/ PlaybackStep \/ Tick

SpecReorder == InitReorder /\ [][NextReorder]_vars

(***************************************************************************)
(* SpecSession: the sessions of a room from construction. Two browsers     *)
(* sign in through Spotify or as listeners, open and close sockets, go     *)
(* stale and take the conductor's role                                     *)
(***************************************************************************)
\* the profiles getMe returns: the second browser signs in with the first one's
\* account, spelled as the provider returns it, or with its own
SessionProfiles == {<<"s1", "u1">>, <<"s2", "U1">>, <<"s2", "u2">>}

\* the second browser may instead join as a listener under the first one's email
SessionListeners == {<<"s2", "u1">>}

InitSession ==
    /\ submittedTracks = << >>
    /\ fallbackQueue = << >>
    /\ preQueue = << >>
    /\ lastAdded = Null
    /\ addCount = 0
    /\ lastCall = NoCall
    /\ RoomInit

SignInStep ==
    \/ \E sid \in SessionIds : SpotifyLogin(sid)
    \/ \E sid \in SessionIds : SpotifyTokens(sid)
    \/ \E profile \in SessionProfiles : SpotifyProfile(profile[1], profile[2])
    \/ \E login \in SessionListeners : ListenerLogin(login[1], login[2])
    \/ \E sid \in SessionIds : WsLogin(sid)
    \/ \E sid \in SessionIds : WsClose(sid)
    \/ \E aged \in SUBSET DOMAIN sessions : HeartbeatsAge(aged)
    \/ CleanupStaleSessions
    \/ \E sid \in SessionIds : TakeMasterControl(sid)

AssignStep ==
    \/ \E t \in BagToSet(tasks), playback \in AdoptedStates : AssignPlayback(t, playback)
    \/ \E t \in BagToSet(tasks) : AssignPlaybackError(t)
    \/ \E t \in BagToSet(tasks), outcome \in LoadOutcomes : AssignLoad(t, outcome)

NextSession == SignInStep \/ AssignStep

SpecSession == InitSession /\ [][NextSession]_vars

(***************************************************************************)
(* SpecPoll: the interval timer against slow provider calls. The conductor *)
(* of the formed room presses play; the timer fires every POLL_INTERVAL_MS *)
(* whether or not the tick before it has returned                          *)
(***************************************************************************)
\* most executions of pollMasterUserPlayback suspended at once
MaxPolls == 2

\* where a poll tick waits
PollPcs == {"pollPlayback", "failLoad", "failPlay", "endLoad", "correctPlay",
            "finishLoad", "finishPlay"}

\* the setInterval callback fires while an earlier tick waits for the provider
PollTickOverlapping ==
    /\ pollInterval
    /\ MasterAccessToken
    /\ InFlight(PollPcs) >= 1
    /\ BagCardinality(tasks) < MaxPolls
    /\ tasks' = Suspend(tasks, Task("pollPlayback", Null, Null, NoPlayback, NoPlayback))
    /\ Quiet
    /\ UNCHANGED <<queueVars, addVars, sessionVars, playVars, now>>

ConductorPlayStep ==
    \/ \E sid \in {masterUserSessionId} : MasterPlay(sid)
    \/ \E t \in BagToSet(tasks), outcome \in LoadOutcomes : MasterPlayLoad(t, outcome)
    \/ \E t \in BagToSet(tasks) : MasterPlayPlay(t)

\* what the playback query returns while the conductor's player plays a
\* submitted track
PlayingStates ==
    [uri : SubmitUris, progress_ms : Progresses, duration_ms : {DurationMs}, is_playing : {"true"}]

\* the poll ticks of a room whose members' players follow the commands
SlowPollStep ==
    \/ PollTick
    \/ PollTickOverlapping
    \/ \E t \in BagToSet(tasks) : PollError(t)
    \/ \E t \in BagToSet(tasks), curr \in PlayingStates : PollPlayback(t, curr, TRUE)
    \/ \E t \in BagToSet(tasks), outcome \in LoadOutcomes : PollFailLoad(t, outcome, TRUE)
    \/ \E t \in BagToSet(tasks) : PollFailPlay(t, TRUE)
    \/ \E t \in BagToSet(tasks), outcome \in LoadOutcomes : PollEndLoad(t, outcome)
    \/ \E t \in BagToSet(tasks) : PollCorrectPlay(t, TRUE)
    \/ \E t \in BagToSet(tasks), outcome \in LoadOutcomes : PollFinishLoad(t, outcome, TRUE)
    \/ \E t \in BagToSet(tasks) : PollFinishPlay(t)

NextPoll == ConductorPlayStep \/ SlowPollStep \/ Tick

SpecPoll == InitPlay /\ [][NextPoll]_vars

(***************************************************************************)
(* SpecOps: QueueManager driven method by method, from the empty queues:   *)
(* addTrack as the handlers call it, consumeNextTrack, moveTrackBackOne    *)
(* and a loaded fallback playlist                                          *)
(***************************************************************************)
\* longest user queue addTrack is called on
MaxOpLen == 3

\* the URIs of the calls: two that get queued and one that never is
OpUris == SubmitUris \cup {"Z"}

InitOps ==
    /\ submittedTracks = << >>
    /\ fallbackQueue \in LoadedFallbacks \cup { << >> }
    /\ preQueue = << >>
    /\ lastAdded = Null
    /\ addCount = 0
    /\ lastCall = NoCall
    /\ RoomInit

\* queueManager.addTrack from a handler; the handler's hasTrack check is not
\* part of the method
AddOp(uri, email) ==
    /\ Len(submittedTracks) < MaxOpLen
    /\ submittedTracks' = addTrack(submittedTracks, Track(uri, email))
    /\ preQueue' = submittedTracks
    /\ lastCall' = Call("addTrack", uri, FALSE, FALSE)
    /\ UNCHANGED <<fallbackQueue, lastAdded, addCount, roomVars>>

ConsumeOp(isFallback) ==
    /\ submittedTracks' = consumeNextTrack(submittedTracks, fallbackQueue, isFallback)[1]
    /\ fallbackQueue' = consumeNextTrack(submittedTracks, fallbackQueue, isFallback)[2]
    /\ preQueue' = submittedTracks
    /\ lastCall' = Call("consumeNextTrack", Null, isFallback, FALSE)
    /\ UNCHANGED <<lastAdded, addCount, roomVars>>

MoveBackOp(uri) ==
    /\ submittedTracks' = moveTrackBackOne(submittedTracks, uri)
    /\ preQueue' = submittedTracks
    /\ lastCall' = Call("moveTrackBackOne", uri, FALSE, moved(submittedTracks, uri))
    /\ UNCHANGED <<fallbackQueue, lastAdded, addCount, roomVars>>

NextOps ==
    \/ \E uri \in SubmitUris, email \in {"u1", "u2"} : AddOp(uri, email)
    \/ \E isFallback \in BOOLEAN : ConsumeOp(isFallback)
    \/ \E uri \in OpUris : MoveBackOp(uri)

SpecOps == InitOps /\ [][NextOps]_vars

(***************************************************************************)
(* Properties of the user queue (checked under SpecQueue)                  *)
(***************************************************************************)
\* two POST /api/tracks handlers for the same URI wait on getSpotifyTrackInfo,
\* both past the duplicate check
C1_Witness ==
    \E t \in Pending("submitInfo") : CopiesIn(t, tasks) >= 2

\* C1: whatever the sequence and interleaving of submissions (POST
\* /api/tracks, master-random-liked, the promotion of a fallback track by a
\* jam), no two entries of the user queue hold the same provider URI
C1_NoDuplicateUris ==
    \A i, j \in 1..Len(submittedTracks) :
        i # j => submittedTracks[i].spotifyUri # submittedTracks[j].spotifyUri

(***************************************************************************)
(* Properties of playback (checked under SpecPlay)                         *)
(***************************************************************************)
\* the queue the current track was peeked from
NominationTier == IF currentTrackIsFallback THEN fallbackQueue ELSE submittedTracks

\* the current track heads the queue it was peeked from
NominatedAtHead ==
    Len(NominationTier) > 0 /\ NominationTier[1] = currentlyPlayingTrack

\* a track is nominated: it is current, not consumed, the failure watch expects
\* it, and the latest poll has not seen it playing
PendingNomination ==
    /\ currentlyPlayingTrack # NoTrack
    /\ ~currentTrackConsumed
    /\ expectedPlayingUri = currentlyPlayingTrack.spotifyUri
    /\ ~(lastPlaybackState.uri = currentlyPlayingTrack.spotifyUri
         /\ lastPlaybackState.is_playing = "true")

\* a nomination is pending with the track at the head of its queue and another
\* track behind it
C2_Witness ==
    PendingNomination /\ NominatedAtHead /\ Len(submittedTracks) > 1

\* C2: from its nomination until a poll sees it playing, the nominated track
\* stays at the head of the queue it was peeked from, whatever messages and
\* poll ticks interleave
C2_NominatedStaysAtHead == PendingNomination => NominatedAtHead

\* the step is a poll tick that sees the nominated track playing
ConfirmingPoll ==
    /\ PendingNomination
    /\ NominatedAtHead
    /\ mode = "master_play"
    /\ \E curr \in observed' :
        curr.uri = currentlyPlayingTrack.spotifyUri /\ curr.is_playing = "true"

\* a poll tick has just seen the current track playing in a playing room
C3_Witness ==
    /\ mode = "master_play"
    /\ currentlyPlayingTrack # NoTrack
    /\ \E curr \in observed :
        curr.uri = currentlyPlayingTrack.spotifyUri /\ curr.is_playing = "true"

\* C3: a poll tick that sees the nominated track playing consumes it from its
\* queue, once, and keeps it current: after master_play nominated X from the
\* user queue [X], the tick leaves current X and the user queue empty
C3_ConfirmedIsConsumed ==
    [][ConfirmingPoll =>
          /\ currentlyPlayingTrack' = currentlyPlayingTrack
          /\ currentTrackConsumed'
          /\ NominationTier' = Tail(NominationTier)]_vars

\* the step is a poll tick that runs after the failure window and does not see
\* the expected track playing
FailingPoll ==
    /\ FailureWindowOver(Globals)
    /\ \E curr \in observed' : PlaybackFailed(Globals, curr)

\* a poll tick has just reported a playback failure to the open sessions
C4_Witness == observed # {} /\ playbackErrorTo # {}

\* C4: a poll tick that runs more than 5000 ms after a nomination and sees
\* another URI, or nothing playing, sends playback_error to every session whose
\* socket is open, leaves the user queue as it is and clears the current track
C4_FailureClearsCurrent ==
    [][FailingPoll =>
          /\ playbackErrorTo' = OpenSessions
          /\ submittedTracks' = submittedTracks
          /\ currentlyPlayingTrack' = NoTrack]_vars

(***************************************************************************)
(* Properties of consumeNextTrack and moveTrackBackOne (checked under      *)
(* SpecOps)                                                                *)
(***************************************************************************)
\* the step is a consumeNextTrack(false) on a user queue that holds a track
ConsumesUserHead ==
    /\ lastCall'.op = "consumeNextTrack"
    /\ ~lastCall'.isFallback
    /\ Len(submittedTracks) > 0

\* consumeNextTrack(false) has run on a user queue of two tracks or more while
\* the fallback queue held tracks
C11_Witness ==
    /\ lastCall.op = "consumeNextTrack"
    /\ ~lastCall.isFallback
    /\ Len(preQueue) >= 2
    /\ fallbackQueue # << >>

\* C11: consumeNextTrack(false) on a non-empty user queue removes the former
\* head and nothing else: the queue is one entry shorter, the other entries
\* keep their order, and the fallback queue is as it was
C11_ConsumeRemovesHead ==
    [][ConsumesUserHead =>
          /\ Len(submittedTracks') = Len(submittedTracks) - 1
          /\ \A i \in 1..Len(submittedTracks') : submittedTracks'[i] = submittedTracks[i + 1]
          /\ fallbackQueue' = fallbackQueue]_vars

\* the queue q with the entries at i and i + 1 exchanged
Exchanged(q, i) == [q EXCEPT ![i] = q[i + 1], ![i + 1] = q[i]]

\* moveTrackBackOne has been called with the URI of the last entry of a user
\* queue of two tracks or more
C12_Witness ==
    /\ lastCall.op = "moveTrackBackOne"
    /\ Len(preQueue) >= 2
    /\ preQueue[Len(preQueue)].spotifyUri = lastCall.uri

\* C12: moveTrackBackOne(uri) with the URI of the last entry of the user queue,
\* or with a URI the queue does not hold, leaves the queue as it is and returns
\* false; with the URI of an entry at i that is not the last one it exchanges
\* the entries at i and i + 1, changes nothing else and returns true
C12_MoveBackOne ==
    [][lastCall'.op = "moveTrackBackOne" =>
          LET q == submittedTracks
              uri == lastCall'.uri
          IN  IF uri \notin UrisOf(q) \/ q[Len(q)].spotifyUri = uri
              THEN submittedTracks' = q /\ ~lastCall'.returned
              ELSE /\ lastCall'.returned
                   /\ \E i \in 1..(Len(q) - 1) :
                        q[i].spotifyUri = uri /\ submittedTracks' = Exchanged(q, i)]_vars

(***************************************************************************)
(* Properties of addTrack (checked under SpecFair)                         *)
(***************************************************************************)
\* the 1-based position the latest addTrack gave its track
NewPos == CHOOSE i \in 1..Len(submittedTracks) : submittedTracks[i] = lastAdded

\* the entry at position i is the n-th track of its submitter, counted from the head
Ordinal(q, i) == Cardinality({j \in 1..i : q[j].userEmail = q[i].userEmail})

TracksOf(q, email) == {i \in 1..Len(q) : q[i].userEmail = email}

\* the 1-based positions of the entries that are some user's first track
FirstTracks(q) == {i \in 1..Len(q) : Truthy(q[i].userEmail) /\ Ordinal(q, i) = 1}

Added == addCount > 0

Uris(q) == [i \in 1..Len(q) |-> q[i].spotifyUri]

\* C5: after addTrack of a track of submitter U (non-empty email) who had k
\* tracks, no j-th track of another user V with j <= k+1 lies after the new track
C5_FairRounds ==
    (Added /\ Truthy(lastAdded.userEmail)) =>
        LET U == lastAdded.userEmail
            k == Cardinality(TracksOf(preQueue, U))
        IN  \A i \in 1..Len(submittedTracks) :
                ( /\ Truthy(submittedTracks[i].userEmail)
                  /\ submittedTracks[i].userEmail # U
                  /\ Ordinal(submittedTracks, i) <= k + 1 ) => i < NewPos

\* a submitter with one track adds a second while another user has three queued
C5_Witness ==
    /\ Added
    /\ Truthy(lastAdded.userEmail)
    /\ Cardinality(TracksOf(preQueue, lastAdded.userEmail)) = 1
    /\ \E v \in Emails \ {lastAdded.userEmail} : Cardinality(TracksOf(preQueue, v)) = 3
    /\ NewPos < Len(submittedTracks)

QueueAfterC1 ==
    <<Track("A1", "u1"), Track("B1", "u2"), Track("C1", "u3"), Track("A2", "u1"),
      Track("B2", "u2"), Track("A3", "u1")>>

QueueAfterC2 ==
    <<Track("A1", "u1"), Track("B1", "u2"), Track("C1", "u3"), Track("A2", "u1"),
      Track("B2", "u2"), Track("C2", "u3"), Track("A3", "u1")>>

\* C6: from [A1_u1, B1_u2, A2_u1, B2_u2, A3_u1], C1 by u3 yields
\* [A1, B1, C1, A2, B2, A3] and then C2 by u3 yields [A1, B1, C1, A2, B2, C2, A3]
C6_ThreeUserRegression ==
    /\ (Added /\ preQueue = QueueThreeUsers /\ lastAdded = Track("C1", "u3"))
            => submittedTracks = QueueAfterC1
    /\ (Added /\ preQueue = QueueAfterC1 /\ lastAdded = Track("C2", "u3"))
            => submittedTracks = QueueAfterC2

C6_Witness ==
    /\ addCount = 2
    /\ preQueue = QueueAfterC1
    /\ lastAdded = Track("C2", "u3")
    /\ submittedTracks = QueueAfterC2

OneSessionPerEmail ==
    \A a \in DOMAIN sessions : \A b \in DOMAIN sessions \ {a} :
        Truthy(sessions[a].email) /\ Truthy(sessions[b].email)
            => toLowerCase(sessions[a].email) # toLowerCase(sessions[b].email)

\* a login was processed and its socket is still open
LoggedIn == \E sid \in DOMAIN sessions : sessions[sid].ws

C13_Witness == LoggedIn /\ Cardinality(DOMAIN sessions) = 2

\* C13: in every state reached after a login has been processed (here: while
\* the session that logged in keeps its socket) the session map holds at most
\* one session per email, compared case-insensitively
C13_OneSessionPerEmail == LoggedIn => OneSessionPerEmail

C14_Witness ==
    /\ masterUserSessionId # Null
    /\ HasSession(masterUserSessionId)
    /\ Cardinality(DOMAIN sessions) = 1
    /\ command.type = "login"

\* C14: if the conductor session-id is non-null, the session map contains that
\* id and that session holds a provider access token
C14_ConductorHoldsToken ==
    masterUserSessionId # Null
        => HasSession(masterUserSessionId) /\ sessions[masterUserSessionId].token

\* the step handles the login of s2 while s1, another session of the same email,
\* is the conductor and s2 holds an access token
DuplicateOfConductorLogsIn(s1, s2) ==
    /\ command'.type = "login" /\ command'.sessionId = s2
    /\ masterUserSessionId = s1 /\ s1 # s2
    /\ HasSession(s1) /\ HasSession(s2)
    /\ Truthy(sessions[s1].email) /\ Truthy(sessions[s2].email)
    /\ toLowerCase(sessions[s1].email) = toLowerCase(sessions[s2].email)
    /\ sessions[s2].token

C15_Witness ==
    /\ command = Command("login", "s2")
    /\ masterUserSessionId = "s2"
    /\ DOMAIN sessions = {"s2"}
    /\ sessions["s2"].email = "U1"
    /\ broadcasts = {"mode"}
    /\ mode = "master_play"
    /\ pollInterval

\* C15: when s2 logs in with the email of the conductor s1 and holds an access
\* token, then after the login s1 has left the session map, s2 is the
\* conductor, the mode (which carries the conductor's id) is broadcast, and the
\* poll timer is set if the mode was master_play before the login
C15_RoleFollowsLogin ==
    [][\A s1 \in SessionIds, s2 \in SessionIds :
          DuplicateOfConductorLogsIn(s1, s2)
              => /\ s1 \notin DOMAIN sessions'
                 /\ masterUserSessionId' = s2
                 /\ "mode" \in broadcasts'
                 /\ (mode = "master_play" => pollInterval')]_vars

\* the named session exists, its email is on the allow-list whatever its case,
\* and it holds an access token
MayTakeControl(sid) ==
    /\ HasSession(sid)
    /\ sessions[sid].email \in {"u1", "U1"}
    /\ sessions[sid].token

C17_Witness ==
    /\ command = Command("take_master_control", "s2")
    /\ HasSession("s2") /\ sessions["s2"].email = "u2" /\ sessions["s2"].token
    /\ masterUserSessionId = "s1"
    /\ mode = "master_play"

\* C17: take_master_control changes the conductor session-id only when the
\* named session exists, its email is on the allow-list (case-insensitively) and
\* it holds an access token; otherwise the conductor session-id and the poll
\* timer are unchanged
C17_TakeControlGuarded ==
    [][\A sid \in SessionIds :
          command' = Command("take_master_control", sid) /\ ~MayTakeControl(sid)
              => /\ masterUserSessionId' = masterUserSessionId
                 /\ pollInterval' = pollInterval]_vars

(***************************************************************************)
(* The conductor's controls and the poll timer                             *)
(***************************************************************************)
ConductorControls == {"master_play", "master_pause", "master_skip"}

C16_Witness ==
    /\ command.type \in ConductorControls
    /\ command.sessionId = "s2"
    /\ masterUserSessionId = "s1"

\* C16: a master_skip, master_play or master_pause message from a session other
\* than the conductor leaves the mode, the current track, the play history and
\* the poll timer unchanged
C16_OnlyConductorControls ==
    [][command'.type \in ConductorControls /\ command'.sessionId # masterUserSessionId
          => /\ mode' = mode
             /\ currentlyPlayingTrack' = currentlyPlayingTrack
             /\ playHistoryPushed' = << >>
             /\ pollInterval' = pollInterval]_vars

\* a poll tick has just set the mode to master_pause and broadcast it
C18_Witness ==
    /\ observed # {}
    /\ mode = "master_pause"
    /\ "mode" \in broadcasts
    /\ command = NoCommand

\* C18: the poll timer is set if and only if the mode is master_play
C18_TimerIffPlaying == pollInterval <=> mode = "master_play"

\* two executions of pollMasterUserPlayback are suspended, one of them past
\* its playback query and holding what it read
C19_Witness ==
    /\ InFlight(PollPcs) = 2
    /\ \E t \in BagToSet(tasks) : t.pc \in PollPcs \ {"pollPlayback"}

\* C19: at most one execution of the poll tick is in progress at any time
C19_OnePollAtATime == InFlight(PollPcs) <= 1

(***************************************************************************)
(* Track-end detection                                                     *)
(***************************************************************************)
\* the step ends the wait of the suspended handler t / suspends a handler as t
Resumed(t) == CopiesIn(t, tasks') < CopiesIn(t, tasks)

Suspended(t) == CopiesIn(t, tasks') > CopiesIn(t, tasks)

\* the step runs a poll tick through lines 718-735 and the tick detects a track
\* end: in the step that reads the playback unless a playback failure makes the
\* tick wait first, else in the step that ends that wait
DetectsTrackEnd ==
    \/ \E curr \in observed' :
            /\ DetectedTrackEnd(lastPlaybackState, curr)
            /\ ~(FailureWindowOver(Globals) /\ PlaybackFailed(Globals, curr))
    \/ \E t \in Pending("failPlay") : Resumed(t) /\ DetectedTrackEnd(t.prev, t.curr)
    \/ \E t \in Pending("failLoad") :
            Resumed(t) /\ ~Suspended(Locals(t, "failPlay")) /\ DetectedTrackEnd(t.prev, t.curr)

\* the outgoing current track is appended to the play history exactly once
OutgoingPushedOnce ==
    playHistoryPushed' = IF currentlyPlayingTrack # NoTrack THEN <<currentlyPlayingTrack>>
                         ELSE << >>

\* the track peekNextTrack finds in the queues becomes current; with both queues
\* empty the tick waits for the fallback playlist
NextBecomesCurrent ==
    IF MustLoad(Globals, TRUE)
    THEN /\ \E t \in BagToSet(tasks') : t.pc = "endLoad" /\ Suspended(t)
         /\ currentlyPlayingTrack' = currentlyPlayingTrack
    ELSE currentlyPlayingTrack' = Peek(Globals).track

\* the step ends a detecting tick's wait for the fallback playlist
EndLoadReturns == \E t \in Pending("endLoad") : Resumed(t)

LoadedBecomesCurrent ==
    fallbackQueue' \in LoadedFallbacks /\ currentlyPlayingTrack' = fallbackQueue'[1]

\* nothing to play: no current track, the room paused; announced says when the
\* track list and the mode are broadcast
PlaybackStops(announced) ==
    /\ fallbackQueue' = fallbackQueue
    /\ currentlyPlayingTrack' = NoTrack
    /\ mode' = "master_pause"
    /\ announced => {"tracks_list", "mode"} \subseteq broadcasts'

\* a poll tick saw the current track start over after its end, pushed it to the
\* play history and made the next track current
C20_Witness ==
    /\ \E curr \in observed :
            /\ curr.progress_ms = 0
            /\ Len(playHistoryPushed) = 1
            /\ playHistoryPushed[1].spotifyUri = curr.uri
    /\ currentlyPlayingTrack # NoTrack

\* C20 as amended: when a poll tick detects a track end and no manual skip fell
\* into the grace period before it, the outgoing current track is appended to
\* the play history exactly once and the track peekNext finds becomes current;
\* when peekNext finds none after loading, current becomes null and the mode
\* master_pause, and the track list and the mode are broadcast if the mode was
\* not master_pause already. A detection within the grace period after a manual
\* skip only clears the skip's timestamp
C20_TrackEndAdvances ==
    [][/\ DetectsTrackEnd /\ ~JustManuallySkipped(Globals)
            => OutgoingPushedOnce /\ NextBecomesCurrent
       /\ DetectsTrackEnd /\ JustManuallySkipped(Globals) => lastManualSkipAt' = 0
       /\ EndLoadReturns
            => LoadedBecomesCurrent \/ PlaybackStops(mode # "master_pause")]_vars

\* C20: when a poll tick detects a track end, the outgoing current track is
\* appended to the play history exactly once and the track peekNext finds
\* becomes current; otherwise current becomes null, the mode master_pause and
\* the track list and the mode are broadcast
C20_EveryTrackEndAdvances ==
    [][/\ DetectsTrackEnd => OutgoingPushedOnce /\ NextBecomesCurrent
       /\ EndLoadReturns => LoadedBecomesCurrent \/ PlaybackStops(TRUE)]_vars

(***************************************************************************)
(* The poll tick against the conductor's player                            *)
(***************************************************************************)
\* the step reads the playback curr in a room that plays, with no playback
\* failure watch armed and no track end detected against the previous reading
ReadsWhilePlaying(curr) ==
    /\ curr \in observed'
    /\ mode = "master_play"
    /\ currentlyPlayingTrack # NoTrack
    /\ expectedPlayingUri = Null
    /\ ~DetectedTrackEnd(lastPlaybackState, curr)

\* outside the grace window the conductor's player is found paused on the
\* current track at or past its full duration, with a track next in line
ObservesPausedAtEnd ==
    \E curr \in PlaybackStates :
        /\ ReadsWhilePlaying(curr)
        /\ ~InGracePeriod(Globals)
        /\ curr.is_playing = "false"
        /\ curr.uri = currentlyPlayingTrack.spotifyUri
        /\ curr.progress_ms >= curr.duration_ms
        /\ Peek(Globals) # NoNext

\* a poll tick found the player paused at the end of the current track
C21_Witness ==
    /\ \E curr \in observed :
            /\ curr.is_playing = "false"
            /\ curr.progress_ms >= curr.duration_ms
            /\ lastTrackChangeCommand + TRACK_CHANGE_GRACE_PERIOD_MS <= now
    /\ playHistoryPushed # << >>
    /\ mode = "master_play"

\* C21: a poll tick outside the grace window that observes is_playing = false
\* with the current track at or above 100 % of its duration does not set the
\* mode to master_pause and handles the track as ended: it goes to the play
\* history and the next track is taken up
C21_FullProgressIsTrackEnd ==
    [][ObservesPausedAtEnd
          => /\ mode' = "master_play"
             /\ playHistoryPushed' = <<currentlyPlayingTrack>>]_vars

\* a track change was commanded less than TRACK_CHANGE_GRACE_PERIOD_MS ago:
\* setCurrentTrackAndStart and master_play stamp lastTrackChangeCommand, the
\* retry after a playback failure stamps playbackFailureCheckTime only
RecentlyCommanded ==
    \/ now - lastTrackChangeCommand < TRACK_CHANGE_GRACE_PERIOD_MS
    \/ /\ playbackFailureCheckTime > 0
       /\ now - playbackFailureCheckTime < TRACK_CHANGE_GRACE_PERIOD_MS

\* the step sends the conductor the play call of line 869
CorrectsDrift == \E t \in BagToSet(tasks') : t.pc = "correctPlay" /\ Suspended(t)

\* a poll tick sets the mode to master_pause at line 986
PausesOnObservedPause ==
    /\ command' = NoCommand
    /\ mode = "master_play"
    /\ mode' = "master_pause"
    /\ currentlyPlayingTrack' # NoTrack

\* within the grace window a poll tick found the conductor on another track
\* and sent no correction
C22_Witness ==
    /\ now - lastTrackChangeCommand < TRACK_CHANGE_GRACE_PERIOD_MS
    /\ mode = "master_play"
    /\ currentlyPlayingTrack # NoTrack
    /\ \E curr \in observed : curr.uri # Null /\ curr.uri # currentlyPlayingTrack.spotifyUri
    /\ tasks = EmptyBag

\* C22: for TRACK_CHANGE_GRACE_PERIOD_MS after the server commands a track
\* change (set-and-start, master_play, master_skip or the retry after a playback
\* failure) no poll tick sends a drift correction and none sets the mode to
\* master_pause because of an observed pause
C22_GraceAfterCommand ==
    [][RecentlyCommanded => ~CorrectsDrift /\ ~PausesOnObservedPause]_vars


(***************************************************************************)
(* C23: the conductor moved on to a queued track                           *)
(***************************************************************************)
\* outside the grace window a poll tick of the playing room reads curr: the
\* conductor's player plays a track of the user queue, the current track is
\* another one that has left the queue and was not near its end
ObservesQueuedTrack(curr) ==
    /\ curr \in observed'
    /\ mode = "master_play"
    /\ currentlyPlayingTrack # NoTrack
    /\ ~hasTrack(submittedTracks, currentlyPlayingTrack.spotifyUri)
    /\ curr.is_playing = "true"
    /\ hasTrack(submittedTracks, curr.uri)
    /\ now - lastTrackChangeCommand >= TRACK_CHANGE_GRACE_PERIOD_MS
    /\ ~DetectedTrackEnd(lastPlaybackState, curr)

\* a master_skip was handled less than 3000 ms ago
SkippedRecently == lastManualSkipAt # 0 /\ now - lastManualSkipAt < TRACK_CHANGE_GRACE_PERIOD_MS

\* the queued track of that URI becomes current and leaves the queue, and the
\* outgoing track is appended to the play history
SyncedTo(uri) ==
    /\ currentlyPlayingTrack' = submittedTracks[FindIndex(submittedTracks, uri) + 1]
    /\ submittedTracks' = SpliceOut(submittedTracks, FindIndex(submittedTracks, uri))
    /\ playHistoryPushed' = <<currentlyPlayingTrack>>

AppendsTrackPlay(uri) == \E i \in 1..Len(historyPushed') : historyPushed'[i] = Event("track_play", uri)

\* the nomination's failure watch is still set and older than its window: the
\* failure check of lines 651-716 runs before the tick compares tracks
WatchOverdue ==
    /\ expectedPlayingUri # Null
    /\ playbackFailureCheckTime > 0
    /\ now - playbackFailureCheckTime > PLAYBACK_FAILURE_TIMEOUT_MS

ConfirmsInWindow(curr) ==
    /\ curr \in observed'
    /\ expectedPlayingUri # Null
    /\ playbackFailureCheckTime > 0
    /\ now - playbackFailureCheckTime <= PLAYBACK_FAILURE_TIMEOUT_MS
    /\ curr.uri = expectedPlayingUri
    /\ curr.is_playing = "true"
    /\ curr.progress_ms < curr.duration_ms
    /\ ~DetectedTrackEnd(lastPlaybackState, curr)

\* a tick inside the window has just read the nominated track playing
C24_Witness ==
    /\ expectedPlayingUri # Null
    /\ playbackFailureCheckTime > 0
    /\ now - playbackFailureCheckTime <= PLAYBACK_FAILURE_TIMEOUT_MS
    /\ \E curr \in observed : /\ curr.uri = expectedPlayingUri
                              /\ curr.is_playing = "true"
                              /\ curr.progress_ms < curr.duration_ms

\* C24: once a poll tick inside the 5000 ms window sees the nominated track
\* playing, the failure watch is cleared, so that no later observation yields
\* playback_error or clears the current track for that nomination
C24_ConfirmationClearsWatch ==
    [][\A curr \in PlaybackStates :
            ConfirmsInWindow(curr) =>
                expectedPlayingUri' = Null /\ playbackFailureCheckTime' = 0]_vars

(***************************************************************************)
(* C25: master_skip                                                        *)
(***************************************************************************)
\* the positions of the user queue that hold another track than the current one
OthersQueued == {i \in 1..Len(submittedTracks) :
                    submittedTracks[i].spotifyUri # currentlyPlayingTrack.spotifyUri}

\* the first queued track other than the current one
NextInLine == submittedTracks[CHOOSE i \in OthersQueued : \A j \in OthersQueued : i <= j]

\* the step handles a master_skip of the playing room with a current track and
\* another track next in line
SkipsWithNextInLine ==
    /\ command'.type = "master_skip"
    /\ mode = "master_play"
    /\ currentlyPlayingTrack # NoTrack
    /\ OthersQueued # {}

\* a master_skip has just replaced the current track by another one and left
\* its marks
C25_Witness ==
    /\ command.type = "master_skip"
    /\ Len(playHistoryPushed) = 1
    /\ currentlyPlayingTrack # NoTrack
    /\ currentlyPlayingTrack.spotifyUri # playHistoryPushed[1].spotifyUri
    /\ historyPushed = <<Event("track_skip", playHistoryPushed[1].spotifyUri)>>
    /\ lastManualSkipAt = now

\* C25: a master_skip of the playing room with a current track X and another
\* track Y next in line makes Y current, appends X to the play history, appends
\* a track_skip event for X and sets the time of the last manual skip; X is not
\* adopted again
C25_SkipAdoptsNextInLine ==
    [][SkipsWithNextInLine =>
            /\ currentlyPlayingTrack' = NextInLine
            /\ playHistoryPushed' = <<currentlyPlayingTrack>>
            /\ historyPushed' = <<Event("track_skip", currentlyPlayingTrack.spotifyUri)>>
            /\ lastManualSkipAt' = now]_vars

(***************************************************************************)
(* C26: start_fallback                                                     *)
(***************************************************************************)
\* the step handles a start_fallback while the conductor holds a token and the
\* fallback queue holds a track
StartsFallback ==
    /\ command'.type = "start_fallback"
    /\ MasterAccessToken
    /\ Len(fallbackQueue) > 0

\* a start_fallback has just made the head of the fallback queue current
C26_Witness ==
    /\ command.type = "start_fallback"
    /\ Len(fallbackQueue) > 0
    /\ currentlyPlayingTrack = fallbackQueue[1]
    /\ currentTrackIsFallback
    /\ mode = "master_play"

\* C26: with a conductor token and a non-empty fallback queue, start_fallback
\* makes the head of the fallback queue the current track, flagged as fallback,
\* and sets the mode to playing, whether or not the user queue is empty
C26_StartFallbackPlaysFallback ==
    [][StartsFallback =>
            /\ currentlyPlayingTrack' = fallbackQueue[1]
            /\ currentTrackIsFallback'
            /\ mode' = "master_play"]_vars

(***************************************************************************)
(* SpecCleanup: the session map under the periodic cleanup. Browsers start *)
(* the provider's OAuth flow or log in as listeners, open and close        *)
(* sockets, send pings or fall silent; setInterval keeps calling           *)
(* cleanupStaleSessions                                                    *)
(***************************************************************************)
NextCleanup ==
    \/ \E sid \in SessionIds : SpotifyLogin(sid)
    \/ \E login \in SessionListeners \cup ListenerLogins : ListenerLogin(login[1], login[2])
    \/ \E sid \in SessionIds : WsLogin(sid)
    \/ \E sid \in SessionIds : WsClose(sid)
    \/ \E sid \in SessionIds : Ping(sid)
    \/ \E aged \in SUBSET DOMAIN sessions : HeartbeatsAge(aged)
    \/ CleanupStaleSessions

SpecCleanup == InitSession /\ [][NextCleanup]_vars /\ WF_vars(CleanupStaleSessions)

(***************************************************************************)
(* C27: the cleanup of stale sessions                                      *)
(***************************************************************************)
\* the session map holds sid and the session has neither logged in nor sent a
\* ping for more than 60 s
Silent(sid) == HasSession(sid) /\ sessions[sid].idle

\* the step is a cleanup that removes sid
CleanupRemoves(sid) ==
    /\ HasSession(sid)
    /\ sid \notin DOMAIN sessions'
    /\ \E i \in 1..Len(historyPushed') : historyPushed'[i] = Event("user_disconnected", sid)

\* the cleanup has just removed a silent listener session
C27_Witness ==
    /\ historyPushed = <<Event("user_disconnected", "s2")>>
    /\ ~HasSession("s2")
    /\ "sessions_list" \in broadcasts

\* C27: while the cleanup keeps running, every session that neither logs in
\* nor sends a ping for more than 60 s is eventually removed, whether it was
\* created by the listener login or by the provider's OAuth route; a cleanup
\* appends one user_disconnected event per removed session and rebroadcasts the
\* session list, and it never removes a session whose heartbeat is at most
\* 60 s old
C27_SilentSessionsRemoved ==
    /\ \A sid \in SessionIds : Silent(sid) ~> ~Silent(sid)
    /\ [][\A sid \in SessionIds :
            CleanupRemoves(sid) =>
                /\ sessions[sid].idle
                /\ "sessions_list" \in broadcasts'
                /\ Cardinality({i \in 1..Len(historyPushed') :
                                    historyPushed'[i] = Event("user_disconnected", sid)}) = 1]_vars

(***************************************************************************)
(* C28: what a close and a broadcast leave alone                           *)
(***************************************************************************)
\* the sessions a broadcast sends to: session.ws && session.ws.readyState === 1
OpenSockets == {sid \in DOMAIN sessions : sessions[sid].ws}

\* the step runs a handler that deletes from the session map itself: the login
\* (rejection, de-duplication) or the cleanup
DeletingHandler ==
    \/ command'.type = "login"
    \/ \E i \in 1..Len(historyPushed') : historyPushed'[i].type = "user_disconnected"

\* a handler has just broadcast while the map holds a session without an open
\* socket
C28_Witness ==
    /\ broadcasts # {}
    /\ DOMAIN sessions \ OpenSockets # {}
    /\ command.type # "login"

\* C28: a socket's close only sets that session's socket to null, and a
\* broadcast leaves every session in the map, those without an open socket
\* included
C28_CloseAndBroadcastKeepSessions ==
    [][/\ \A sid \in SessionIds :
            command' = Command("close", sid) => sessions' = [sessions EXCEPT ![sid].ws = FALSE]
       /\ broadcasts' # {} /\ ~DeletingHandler => sessions' = sessions]_vars

(***************************************************************************)
(* The history log from the start of the server                            *)
(***************************************************************************)
\* the longest history file read at startup
MaxFileEvents == 502

\* the lengths of the history file: none or short, and around the cap
FileLengths == {0, 1} \cup ((MAX_HISTORY_EVENTS - 2) .. MaxFileEvents)

\* the declarations of index.ts, before the startup block has run
InitHistory ==
    /\ submittedTracks = << >>
    /\ fallbackQueue = << >>
    /\ preQueue = << >>
    /\ lastAdded = Null
    /\ addCount = 0
    /\ lastCall = NoCall
    /\ SessionInit
    /\ PlayInit
    /\ historyLength = 0
    /\ NameAsLoaded

\* the startup block with no session file, no track file and no fallback
\* playlist configured: loadHistoryFromFile(), then the restart event is
\* pushed and nothing is broadcast
Startup(fileLength) ==
    /\ historyLength = 0
    /\ historyLength' = loadHistoryFromFile(fileLength) + 1
    /\ observed' = {}
    /\ playbackErrorTo' = {}
    /\ broadcasts' = {}
    /\ command' = NoCommand
    /\ playHistoryPushed' = << >>
    /\ historyPushed' = <<Event("user_connected", "system")>>
    /\ playlistResponse' = NoResponse
    /\ UNCHANGED <<queueVars, addVars, roomVarsButOut, playlistVars>>

\* the server listens once the startup block has run
Listening == historyLength > 0

NextHistory ==
    \/ \E fileLength \in FileLengths : Startup(fileLength)
    \/ /\ Listening
       /\ \E login \in SessionListeners \cup ListenerLogins : ListenerLogin(login[1], login[2])
    \/ /\ Listening
       /\ \E sid \in SessionIds, uri \in SubmitUris : SubmitTrack(sid, uri)
    \/ /\ Listening
       /\ \E uri \in SubmitUris : RemoveTrack(uri)
    \/ /\ Listening
       /\ \E aged \in SUBSET DOMAIN sessions : HeartbeatsAge(aged)
    \/ /\ Listening
       /\ CleanupStaleSessions

SpecHistory == InitHistory /\ [][NextHistory]_vars

(***************************************************************************)
(* C29: the bounds of the history log and of its messages                  *)
(***************************************************************************)
\* a handler has pushed events onto a full history and broadcast it
C29_Witness ==
    /\ historyPushed # << >>
    /\ broadcasts # {}
    /\ historyLength = MAX_HISTORY_EVENTS
    /\ HistoryMessage = HISTORY_MESSAGE_EVENTS

\* C29: in every reachable state, the state right after startup included, the
\* in-memory history holds at most 500 events, and a history message carries
\* at most 100 entries
C29_HistoryBounded ==
    /\ historyLength <= MAX_HISTORY_EVENTS
    /\ HistoryMessage <= HISTORY_MESSAGE_EVENTS

(***************************************************************************)
(* The track list shown to clients                                         *)
(***************************************************************************)
\* the list is topped up with fallback tracks to this many entries
DISPLAY_TRACKS == 10

\* an entry of the tracks_list message
DisplayEntry(uri, email, isFallback) ==
    [spotifyUri |-> uri, userEmail |-> email, isFallback |-> isFallback]

\* trackList after the loop has pushed the first needed fallback tracks
RECURSIVE pushFallbackTracks(_, _, _, _)
pushFallbackTracks(trackList, fallbackTracks, i, neededFallbackCount) ==
    IF i < neededFallbackCount
    THEN pushFallbackTracks(
             Append(trackList, DisplayEntry(fallbackTracks[i + 1].spotifyUri, EmptyEmail, TRUE)),
             fallbackTracks, i + 1, neededFallbackCount)
    ELSE trackList

\* getFallbackInfo() is not null: the constructor sets the playlist URL to the
\* environment's or the default one and loadFallbackPlaylist only replaces it
\* with a URL it could parse
fallbackInfo == TRUE

getDisplayTrackList_NoLimit(q, fb) ==
    pushFallbackTracks([i \in 1..Len(q) |-> DisplayEntry(q[i].spotifyUri, q[i].userEmail, FALSE)],
                       fb, 0, Len(fb))

getDisplayTrackList(q, fb) ==
    LET trackList == [i \in 1..Len(q) |-> DisplayEntry(q[i].spotifyUri, q[i].userEmail, FALSE)]
    IN  IF Len(q) < DISPLAY_TRACKS /\ fallbackInfo
        THEN pushFallbackTracks(trackList, fb, 0, Min(DISPLAY_TRACKS - Len(q), Len(fb)))
        ELSE trackList

\* the longest queue of either tier
MaxDisplay == 11

\* the tracks the queues are filled from, X and Y among the submitted ones
QueuedUris == <<"X", "a2", "a3", "Y", "a5", "a6", "a7", "a8", "a9", "a10", "a11", "a12">>

PlaylistPool == <<"k1", "k2", "k3", "k4", "k5", "k6", "k7", "k8", "k9", "k10", "k11", "k12">>

\* n tracks of the pool from its entry after the first r, by that submitter
QueueOf(pool, n, r, email) ==
    [i \in 1..n |-> Track(pool[((i + r - 1) % Len(pool)) + 1], email)]

\* a room after construction whose queues hold up to MaxDisplay tracks each
InitDisplay ==
    /\ \E u \in 0..MaxDisplay, r \in 0..1 : submittedTracks = QueueOf(QueuedUris, u, r, "u1")
    /\ \E f \in 0..MaxDisplay, r \in 0..1 : fallbackQueue = QueueOf(PlaylistPool, f, r, FALLBACK_EMAIL)
    /\ preQueue = << >>
    /\ lastAdded = Null
    /\ addCount = 0
    /\ lastCall = NoCall
    /\ RoomInit

NextDisplay == ReorderStep

SpecDisplay == InitDisplay /\ [][NextDisplay]_vars

(***************************************************************************)
(* C30: the composition of the tracks_list message                         *)
(***************************************************************************)
\* the tracks_list a broadcast of this state carries
TracksList == getDisplayTrackList(submittedTracks, fallbackQueue)

\* the fallback entries the list is to carry
FallbackShown ==
    IF Len(submittedTracks) < DISPLAY_TRACKS
    THEN Min(DISPLAY_TRACKS - Len(submittedTracks), Len(fallbackQueue))
    ELSE 0

\* a tracks_list went out that holds user tracks and leaves fallback tracks out
C30_Witness ==
    /\ "tracks_list" \in broadcasts
    /\ submittedTracks # << >>
    /\ FallbackShown > 0
    /\ FallbackShown < Len(fallbackQueue)
    /\ Len(TracksList) = DISPLAY_TRACKS

\* C30: a tracks_list is the whole user queue in order, tagged isFallback =
\* false, followed by the first min(10 - u, f) fallback tracks in order, tagged
\* isFallback = true, when u < 10, and by none when u >= 10
C30_TracksListShape ==
    "tracks_list" \in broadcasts =>
        /\ Len(TracksList) = Len(submittedTracks) + FallbackShown
        /\ \A i \in 1..Len(submittedTracks) :
              /\ TracksList[i].spotifyUri = submittedTracks[i].spotifyUri
              /\ TracksList[i].userEmail = submittedTracks[i].userEmail
              /\ ~TracksList[i].isFallback
        /\ \A i \in 1..FallbackShown :
              /\ TracksList[Len(submittedTracks) + i].spotifyUri = fallbackQueue[i].spotifyUri
              /\ TracksList[Len(submittedTracks) + i].isFallback

(***************************************************************************)
(* Jams while tracks play                                                  *)
(***************************************************************************)
\* the fallback queues of the jam room: none, the playlist, and a playlist
\* that lists its track twice (getPlaylistTracks keeps every item)
JamFallbacks ==
    {<< >>, <<Track("K", FALLBACK_EMAIL)>>, <<Track("K", FALLBACK_EMAIL), Track("K", FALLBACK_EMAIL)>>}

\* the user queues of the jam room
JamQueues == {<< >>, <<Track("X", "u1")>>}

InitJam == FormedRoom(JamQueues, JamFallbacks)

JamStep ==
    \/ \E sid \in SessionIds, uri \in PlaylistUris, unjam \in BOOLEAN : JamPromote(sid, uri, unjam)
    \/ \E sid \in SessionIds, uri \in ProviderUris, unjam \in BOOLEAN : JamTrack(sid, uri, unjam)

\* the conductor's player is found at the start of a track
StartedStates ==
    [uri : ProviderUris, progress_ms : {0}, duration_ms : {DurationMs}, is_playing : {"true"}]

\* the poll ticks of the jam room: one at a time, each finding a track started
JamPollStep ==
    \/ PollTick
    \/ \E t \in BagToSet(tasks), curr \in StartedStates : PollPlayback(t, curr, TRUE)

NextJam == JamStep \/ ConductorPlayStep \/ JamPollStep

SpecJam == InitJam /\ [][NextJam]_vars


(***************************************************************************)
(* C31: a jam promotes a fallback track that is not playing                *)
(***************************************************************************)
\* the step handles the jam (not unjam) of uri sent by the session sid
JamsTrack(sid, uri) == command' = JamCommand(sid, uri, FALSE)

\* before the step uri is a fallback track that neither plays nor is queued
\* by a participant, and sid has an email
Promotable(sid, uri) ==
    /\ Truthy(EmailOf(sid))
    /\ hasTrack(fallbackQueue, uri)
    /\ currentlyPlayingTrack.spotifyUri # uri
    /\ ~hasTrack(submittedTracks, uri)

\* after the step uri has left the fallback queue and is queued as submitted
\* by the jammer with one jam of theirs
Promoted(sid, uri) ==
    /\ ~hasTrack(fallbackQueue', uri)
    /\ \E i \in 1..Len(submittedTracks') :
          submittedTracks'[i] = Jammed(uri, EmailOf(sid), [e \in {EmailOf(sid)} |-> 1])

\* the step leaves the membership of both queues as it was
KeepsMembership ==
    /\ Len(submittedTracks') = Len(submittedTracks)
    /\ Len(fallbackQueue') = Len(fallbackQueue)
    /\ \A i \in 1..Len(submittedTracks) :
          submittedTracks'[i].spotifyUri = submittedTracks[i].spotifyUri
    /\ \A i \in 1..Len(fallbackQueue) :
          fallbackQueue'[i].spotifyUri = fallbackQueue[i].spotifyUri

\* a promotable fallback track was jammed and is now in the user queue
C31_Witness ==
    /\ command.type = "jam"
    /\ ~command.unjam
    /\ historyPushed = <<Event("track_added", command.spotifyUri)>>
    /\ hasTrack(submittedTracks, command.spotifyUri)

\* C31: a jam of a fallback track K that is neither playing nor in the user
\* queue moves K from the fallback queue into the user queue, as submitted by
\* the jammer with jam counts {jammer: 1}; a jam of the playing track promotes
\* nothing and both queues keep their membership
C31_JamPromotesFallbackTrack ==
    [][\A sid \in SessionIds, uri \in ProviderUris :
          JamsTrack(sid, uri) =>
              /\ Promotable(sid, uri) => Promoted(sid, uri)
              /\ (Truthy(EmailOf(sid)) /\ currentlyPlayingTrack.spotifyUri = uri)
                     => KeepsMembership]_vars


(***************************************************************************)
(* C32: jam counts move by one                                             *)
(***************************************************************************)
\* the count a jam or unjam is to leave where the actor's count was this
CountAfter(count, unjam) ==
    IF ~unjam THEN count + 1 ELSE IF count > 0 THEN count - 1 ELSE count

\* the step takes the actor's count on the track before to the one on the
\* track after as one jam or unjam does, with no entry left at zero
CountsOnce(before, after, email, unjam) ==
    /\ JamCount(after.jamCounts, email) = CountAfter(JamCount(before.jamCounts, email), unjam)
    /\ CountAfter(JamCount(before.jamCounts, email), unjam) = 0 => email \notin DOMAIN after.jamCounts

\* every jam count the track stores is a positive integer
PositiveCounts(track) == \A email \in DOMAIN track.jamCounts : track.jamCounts[email] > 0

\* a jam was counted on the current track while it sat unconsumed at the head
\* of the user queue
C32_Witness ==
    /\ command.type = "jam"
    /\ ~command.unjam
    /\ historyPushed = <<Event("jam", command.spotifyUri)>>
    /\ currentlyPlayingTrack.spotifyUri = command.spotifyUri
    /\ ~currentTrackConsumed
    /\ submittedTracks # << >>
    /\ submittedTracks[1].spotifyUri = command.spotifyUri

\* C32: a jam raises the actor's count on the referenced track by one, an
\* unjam with a positive count lowers it by one and drops the entry at zero,
\* an unjam with no count changes nothing, whether the track is queued, is the
\* current track, or is both; every stored count is positive
C32_JamCountsMoveByOne ==
    /\ [][\A sid \in SessionIds, uri \in ProviderUris, unjam \in BOOLEAN :
            (command' = JamCommand(sid, uri, unjam) /\ Truthy(EmailOf(sid))) =>
                /\ hasTrack(submittedTracks, uri) =>
                      CountsOnce(submittedTracks[FindIndex(submittedTracks, uri) + 1],
                                 submittedTracks'[FindIndex(submittedTracks, uri) + 1],
                                 EmailOf(sid), unjam)
                /\ currentlyPlayingTrack.spotifyUri = uri =>
                      CountsOnce(currentlyPlayingTrack, currentlyPlayingTrack',
                                 EmailOf(sid), unjam)]_vars
    /\ [](/\ PositiveCounts(currentlyPlayingTrack)
          /\ \A i \in 1..Len(submittedTracks) : PositiveCounts(submittedTracks[i]))


(***************************************************************************)
(* Submissions of tracks and playlists, jams of fallback tracks and the    *)
(* cleanup that can take the conductor's session away                      *)
(***************************************************************************)
InitSubmit == FormedRoom({<< >>}, {<< >>} \cup LoadedFallbacks)

NextSubmit ==
    \/ \E sid \in SessionIds, uri \in ProviderUris : SubmitTrack(sid, uri)
    \/ \E t \in BagToSet(tasks) : SubmitResume(t)
    \/ \E uri \in ProviderUris : RemoveTrack(uri)
    \/ \E sid \in SessionIds, uri \in PlaylistUris : JamPromote(sid, uri, FALSE)
    \/ \E sid \in SessionIds, url \in SubmittedPlaylists : SubmitPlaylist(sid, url)
    \/ \E t \in BagToSet(tasks), outcome \in LoadOutcomes : SubmitPlaylistResume(t, outcome)
    \/ \E aged \in SUBSET DOMAIN sessions : HeartbeatsAge(aged)
    \/ CleanupStaleSessions

SpecSubmit == InitSubmit /\ [][NextSubmit]_vars

(***************************************************************************)
(* C33: a track is in one queue at most                                    *)
(***************************************************************************)
\* the URIs both queues hold
InBothQueues == UrisOf(submittedTracks) \cap UrisOf(fallbackQueue)

\* a participant's submission of a fallback track has been queued
C33_Witness ==
    /\ historyPushed # << >>
    /\ historyPushed[1].type = "track_added"
    /\ historyPushed[1].about \in PlaylistUris
    /\ command = NoCommand
    /\ hasTrack(submittedTracks, historyPushed[1].about)

\* C33: in every reachable state no URI is in both the user queue and the
\* fallback queue
C33_OneQueuePerTrack == InBothQueues = {}


(***************************************************************************)
(* C35: a playlist that cannot be loaded leaves the fallback as it was     *)
(***************************************************************************)
\* a playlist submission was answered with 400 while the room had a loaded
\* fallback playlist
C35_Witness ==
    /\ playlistResponse = 400
    /\ fallbackQueue # << >>
    /\ currentFallbackPlaylistName # ""

\* the submission of a playlist ended without a load: no conductor token, or
\* the fetch failed
RejectsPlaylist ==
    \/ /\ \E t \in BagToSet(tasks) : t.pc = "playlistLoad" /\ tasks' = Resume(tasks, t)
       /\ playlistResponse' # 200
    \/ /\ ~MasterAccessToken
       /\ tasks' = tasks
       /\ playlistResponse' # NoResponse

\* C35: when a submitted playlist cannot be loaded the submitter gets a 400
\* and the fallback queue, the fallback playlist URL and its name are unchanged
C35_FailedPlaylistKeepsFallback ==
    [][/\ RejectsPlaylist =>
             /\ playlistResponse' = 400
             /\ fallbackQueue' = fallbackQueue
             /\ currentFallbackPlaylistUrl' = currentFallbackPlaylistUrl
             /\ currentFallbackPlaylistName' = currentFallbackPlaylistName
       \* 200 is the answer to a playlist that was loaded
       /\ playlistResponse' = 200 =>
             /\ currentFallbackPlaylistUrl' \in SubmittedPlaylists
             /\ currentFallbackPlaylistName' = PlaylistName(currentFallbackPlaylistUrl')
             /\ fallbackQueue' \in LoadedFallbacks]_vars


(***************************************************************************)
(* C34: the user_connected event of a login                                *)
(***************************************************************************)
\* the socket login of sid has just been accepted: the session carries an
\* identity and the socket is attached to it
LoginAccepted(sid) ==
    /\ command = Command("login", sid)
    /\ HasSession(sid)
    /\ sessions[sid].ws

\* the user_connected events of sid among the events h
ConnectedEvents(h, sid) == {i \in 1..Len(h) : h[i] = Event("user_connected", sid)}

\* the handler that has just run appended one user_connected event for sid
Connected(sid) == Cardinality(ConnectedEvents(historyPushed, sid)) = 1

\* the step is a socket login of a session whose socket is attached already
Reconnects(sid) ==
    /\ command' = Command("login", sid)
    /\ HasSession(sid)
    /\ sessions[sid].ws

\* a listener's session has just logged in over its socket
C34_Witness == LoginAccepted("s2") /\ sessions["s2"].email = "u2" /\ ~sessions["s2"].token

\* C34: a session that logs in successfully has a user_connected event
\* appended for it, by its first login and thus no later than any successful
\* login of it; no handler appends more than one such event for a session, and
\* the login of a session whose socket is attached already appends none
C34_FirstLoginConnects ==
    /\ \A sid \in SessionIds : (<>LoginAccepted(sid)) => (<>Connected(sid))
    /\ [][\A sid \in SessionIds :
            /\ Cardinality(ConnectedEvents(historyPushed', sid)) <= 1
            /\ Reconnects(sid) => ConnectedEvents(historyPushed', sid) = {}]_vars


(***************************************************************************)
(* C36: addTrack and the head of the queue                                 *)
(***************************************************************************)
\* addTrack has just added a track to a queue whose head entry carries no
\* submitter email
C36_Witness ==
    /\ addCount > 0
    /\ preQueue # << >>
    /\ ~Truthy(Head(preQueue).userEmail)
    /\ hasTrack(submittedTracks, lastAdded.spotifyUri)

\* C36: addTrack never inserts at index 0 of a non-empty queue: the head of
\* the queue after the call is the head before it, also when the head entry
\* has a null or empty submitter email
C36_AddTrackKeepsHead ==
    (addCount > 0 /\ preQueue # << >>) =>
        /\ submittedTracks[1] = preQueue[1]
        /\ submittedTracks[1] # lastAdded


(***************************************************************************)
(* SpecPause: the conductor of the formed room plays and pauses while the  *)
(* poll timer ticks; a master_pause may arrive while a poll tick waits for *)
(* a provider call, and the tick resumes on the state the pause left       *)
(***************************************************************************)
\* ws 'master_pause' from the socket of sid, handled while a poll tick is
\* suspended: the mode is written before the handler waits for the pause calls
MasterPauseOverlapping(sid) ==
    /\ mode # "master_pause"
    /\ AnyToken
    /\ InFlight(PollPcs) >= 1
    /\ BagCardinality(tasks) < MaxPolls
    /\ Commit([Globals EXCEPT !.mode = "master_pause", !.from = Command("master_pause", sid)])
    /\ tasks' = Suspend(tasks, [NoLocals EXCEPT !.pc = "pausePause"])
    /\ UNCHANGED <<addVars, sessionVars, now>>

ConductorPauseStep ==
    \/ \E sid \in {masterUserSessionId} : MasterPause(sid)
    \/ \E sid \in {masterUserSessionId} : MasterPauseOverlapping(sid)
    \/ \E t \in BagToSet(tasks) : MasterPausePause(t)

NextPause == ConductorPlayStep \/ ConductorPauseStep \/ SlowPollStep \/ Tick

SpecPause == InitPlay /\ [][NextPause]_vars

(***************************************************************************)
(* SpecStray: the formed room with two tracks queued, whose conductor's    *)
(* player does not always follow the commands: poll ticks, which may       *)
(* overlap, also find it paused or on a track of its own                   *)
(***************************************************************************)
\* what the playback query also returns in this room: a submitted track at its
\* start, paused, and a track of the playlist that the room has not queued
StrayStates ==
    [uri : SubmitUris, progress_ms : {0}, duration_ms : {DurationMs}, is_playing : {"false"}]
        \cup [uri : PlaylistUris, progress_ms : {0}, duration_ms : {DurationMs}, is_playing : {"true"}]

\* a poll tick finds the conductor's player paused or on a track of its own
StrayPollStep == \E t \in BagToSet(tasks), curr \in StrayStates : PollPlayback(t, curr, TRUE)

\* the formed room with two tracks of two participants queued
InitStray == FormedRoom({<<Track("X", "u1"), Track("Y", "u2")>>}, {<< >>})

NextStray == ConductorPlayStep \/ SlowPollStep \/ StrayPollStep \/ Tick

SpecStray == InitStray /\ [][NextStray]_vars


(***************************************************************************)
(* C38: the pause against a suspended poll tick                            *)
(***************************************************************************)
\* a master_pause has been processed and nothing has resumed the room since:
\* the handler waits for its pause calls, or it has stopped the poll timer
PausedByConductor ==
    /\ mode = "master_pause"
    /\ Pending("pausePause") # {} \/ ~pollInterval

\* the step runs the handler of a message that resumes the room
ResumesRoom == command'.type \in {"master_play", "start_fallback"}

\* a master_play handler that has set the mode has yet to start the poll timer
PlayInProgress == Pending("playLoad") # {} \/ Pending("playPlay") # {}

\* a master_pause has just been handled while a poll tick waits for a provider
\* call it made when the room played
C38_Witness ==
    /\ command.type = "master_pause"
    /\ mode = "master_pause"
    /\ InFlight(PollPcs) >= 1

\* C38: after a master_pause the mode stays paused until a master_play or a
\* start_fallback (a conductor assignment does not occur in this room): no poll
\* tick that resumes after the pause sets the mode back to playing, and the
\* mode is never playing with the poll timer stopped once the master_play
\* handler has finished
C38_PauseHolds ==
    /\ [][(PausedByConductor /\ mode' = "master_play") => ResumesRoom]_vars
    /\ [](mode = "master_play" => (pollInterval \/ PlayInProgress))


(***************************************************************************)
(* C37: what a consume on confirmation removes                             *)
(***************************************************************************)
\* the queue currentTrackIsFallback names
FlaggedTier == IF currentTrackIsFallback THEN fallbackQueue ELSE submittedTracks

\* the flags describe the current track: a current track that is not marked
\* consumed is the head of the queue currentTrackIsFallback names
FlagsDescribeCurrent ==
    (currentlyPlayingTrack # NoTrack /\ ~currentTrackConsumed) =>
        /\ FlaggedTier # << >>
        /\ Head(FlaggedTier).spotifyUri = currentlyPlayingTrack.spotifyUri

\* the step is a poll tick that consumes on confirmation (lines 952-959)
ConsumesOnConfirm ==
    /\ ~currentTrackConsumed
    /\ currentTrackConsumed'
    /\ currentlyPlayingTrack' # NoTrack

\* the entries of q that are not in r
Leaving(q, r) == {q[i] : i \in 1..Len(q)} \ {r[i] : i \in 1..Len(r)}

\* a poll tick has just consumed on confirmation: the current track is marked
\* consumed and started
C37_Witness ==
    /\ currentTrackConsumed
    /\ currentlyPlayingTrack # NoTrack
    /\ masterTrackStarted
    /\ mode = "master_play"
    /\ "mode" \in broadcasts

\* C37: currentTrackIsFallback and currentTrackConsumed always describe the
\* current track, and a consume on confirmation removes nothing but the current
\* track, from the queue it was nominated from
C37_ConsumeRemovesCurrent ==
    /\ []FlagsDescribeCurrent
    /\ [][ConsumesOnConfirm =>
            /\ Leaving(submittedTracks, submittedTracks') \cup Leaving(fallbackQueue, fallbackQueue')
                    \subseteq {currentlyPlayingTrack'}
            /\ IF currentTrackIsFallback' THEN submittedTracks' = submittedTracks
               ELSE fallbackQueue' = fallbackQueue]_vars


(***************************************************************************)
(* SpecAdvance: the formed room with two tracks queued and a conductor     *)
(* whose player starts and finishes every track the room commands; the     *)
(* poll timer keeps firing and every provider call returns                 *)
(***************************************************************************)
\* what the playback query returns after last when the player follows the
\* commands: the current track at its start, then near its end, then stopped
\* at progress 0; a track that is commanded again starts again
CooperativeState ==
    LET uri == currentlyPlayingTrack.spotifyUri
        last == lastPlaybackState
        playing == last.uri = uri /\ last.is_playing = "true"
        At_(progress, is_playing) ==
            [uri |-> uri, progress_ms |-> progress, duration_ms |-> DurationMs,
             is_playing |-> is_playing]
    IN  IF playing /\ last.progress_ms = 0 THEN At_(95, "true")
        ELSE IF playing /\ last.progress_ms = 95 THEN At_(0, "false")
        ELSE At_(0, "true")

\* the playback query of a poll tick returns
CooperativePoll ==
    \E t \in BagToSet(tasks) :
        currentlyPlayingTrack # NoTrack /\ PollPlayback(t, CooperativeState, TRUE)

\* the play calls of a master_play or of a retry after a failure return
PlayReturns ==
    \/ \E t \in BagToSet(tasks) : MasterPlayPlay(t)
    \/ \E t \in BagToSet(tasks) : PollFailPlay(t, TRUE)

ConductorStep ==
    \/ \E sid \in {masterUserSessionId} : MasterPlay(sid)
    \/ \E sid \in {masterUserSessionId} : MasterSkip(sid)

InitAdvance ==
    FormedRoom({<<Track("X", "u1"), Track("Y", "u2")>>, <<Track("Y", "u2"), Track("X", "u1")>>},
               {<< >>})

NextAdvance == ConductorStep \/ PlayReturns \/ PollTick \/ CooperativePoll \/ Tick

SpecAdvance ==
    /\ InitAdvance
    /\ [][NextAdvance]_vars
    /\ WF_vars(PollTick)
    /\ WF_vars(CooperativePoll)
    /\ WF_vars(PlayReturns)


(***************************************************************************)
(* C39: every queued track gets its turn                                   *)
(***************************************************************************)
\* the room plays and uri is one of two or more tracks of the user queue
QueuedWhilePlaying(uri) ==
    /\ mode = "master_play"
    /\ Len(submittedTracks) >= 2
    /\ hasTrack(submittedTracks, uri)

\* uri is the current track and has left the user queue
PlayedFromQueue(uri) ==
    /\ currentlyPlayingTrack.spotifyUri = uri
    /\ ~hasTrack(submittedTracks, uri)

\* a poll tick of the playing room has just detected the end of the current
\* track, with two tracks queued, and has nominated the next
C39_Witness ==
    /\ mode = "master_play"
    /\ Len(submittedTracks) >= 2
    /\ observed # {}
    /\ playHistoryPushed # << >>
    /\ currentlyPlayingTrack # NoTrack

\* C39: while the room plays with a conductor whose player starts and finishes
\* every commanded track, every track of a user queue of two or more
\* eventually becomes the current track and leaves the queue
C39_QueuedTracksGetTheirTurn ==
    \A uri \in SubmitUris : QueuedWhilePlaying(uri) ~> PlayedFromQueue(uri)


(***************************************************************************)
(* SpecSucceed: browsers sign in with the provider or as listeners, log in *)
(* over their sockets, fall silent and are cleaned up; the cleanup timer   *)
(* keeps firing and the provider calls of an assignment return. Nobody     *)
(* sends take_master_control                                               *)
(***************************************************************************)
\* the accounts the two browsers sign in to the provider with
TokenLogins == {<<"s1", "u1">>, <<"s2", "u2">>}

\* the provider calls of assignMasterUserIfNeeded return; the new conductor's
\* player is found idle
AssignReturns ==
    \/ \E t \in BagToSet(tasks) : AssignPlayback(t, NoPlayback)
    \/ \E t \in BagToSet(tasks) : AssignPlaybackError(t)
    \/ \E t \in BagToSet(tasks), outcome \in LoadOutcomes : AssignLoad(t, outcome)

NextSucceed ==
    \/ \E login \in TokenLogins : SpotifyCallback(login[1], login[2])
    \/ \E login \in SessionListeners : ListenerLogin(login[1], login[2])
    \/ \E sid \in SessionIds : WsLogin(sid)
    \/ \E sid \in SessionIds : Ping(sid)
    \/ \E aged \in SUBSET DOMAIN sessions : HeartbeatsAge(aged)
    \/ CleanupStaleSessions
    \/ AssignReturns

SpecSucceed ==
    /\ InitSession
    /\ [][NextSucceed]_vars
    /\ WF_vars(CleanupStaleSessions)
    /\ WF_vars(AssignReturns)

(***************************************************************************)
(* C40: the conductor's role after the conductor's session is removed      *)
(***************************************************************************)
\* the conductor's session has been removed from the map
ConductorGone == masterUserSessionId # Null /\ ~HasSession(masterUserSessionId)

\* a session that holds an access token has just logged in over its socket
TokenHolderLoggedIn ==
    \E sid \in DOMAIN sessions :
        /\ command = Command("login", sid)
        /\ sessions[sid].token
        /\ sessions[sid].ws

\* masterUserSessionId names a session of the map that holds an access token
ConductorValid == AccessToken(masterUserSessionId)

\* the conductor's session is gone and a session holding a token has just
\* logged in
C40_Witness == ConductorGone /\ TokenHolderLoggedIn

\* C40: once the conductor's session has been removed, by the cleanup or by a
\* login under its email without a token, and a session holding an access token
\* is in the map or logs in afterwards, masterUserSessionId eventually names a
\* session of the map that holds a token, with no take_master_control sent
C40_ConductorSucceeded ==
    /\ (ConductorGone /\ AnyToken) ~> ConductorValid
    /\ (ConductorGone /\ TokenHolderLoggedIn) ~> ConductorValid

=============================================================================
